---- MODULE Spec2Model ----
(***************************************************************************)
(* The Live Capture & Compositing Session of poor-mans-loom: the           *)
(* ScreenRecorder component of src/components/recorder/screen-recorder.tsx *)
(* as a state machine.  Every invocation of startRecording is a process    *)
(* with its own closure (the values captured by the render that created    *)
(* the callback) and its own media objects: screen stream, microphone      *)
(* stream, mixer, compositor, encoder (MediaRecorder) and duration ticker  *)
(* are all indexed by the invocation that created them.  The component's   *)
(* refs hold the index of the object they point to, Null for null.  The    *)
(* camera streams are indexed by the getCameraStream call that returned    *)
(* them.                                                                   *)
(*                                                                         *)
(* Spec follows overlapping invocations of startRecording; SpecChunks adds *)
(* the chunks the encoders deliver, SpecCamera the camera and its          *)
(* settings, SpecClock the wall clock and SpecEncoder encoder failures;    *)
(* SpecFinalize is SpecClock with the queued encoder events delivered.     *)
(* SpecOverlapClock follows overlapping invocations under the clock,       *)
(* SpecHome the page that switches between recorder and editor, SpecEditor *)
(* the editor's timeline, SpecLegacy the legacy recorder of                *)
(* src/app/components/ScreenRecorder.tsx and SpecRender its render step    *)
(* for every overlay position.                                             *)
(***************************************************************************)
EXTENDS Integers, Sequences, FiniteSets, TLC

\* ------------------------------------------------------------- bounds
\* startRecording invocations in one behaviour
MaxStarts == 2
\* chunks the buffer holds before periodic emission stops
MaxChunks == 2
\* milliseconds the wall clock advances in all, and in one step
MaxTime == 2000
ClockStep == 500
\* changes of the audio settings in one behaviour
MaxSettingsChanges == 1
\* getCameraStream requests in one behaviour
MaxCameraRequests == 2
\* changes of the camera settings in one behaviour
MaxCameraSettingsChanges == 2
\* startRecording invocations in the behaviours that follow the camera or the clock
MaxFollowedStarts == 1
\* seconds of the recording the editor is opened on
VideoDuration == 4

Null == 0
NoTime == 0 - 1
Ids == 1..MaxStarts
CamIds == 1..MaxCameraRequests

VARIABLES
  mounted,             \* the component is mounted
  recordingState,      \* useState RecordingState
  audioSettings,       \* useState AudioSettings
  micStream,           \* useState: id of the microphone stream, or Null
  systemAudioStream,   \* useState: id of the screen stream whose audio it wraps, or Null
  mediaRecorderRef,    \* refs: id of the object referenced, or Null
  screenStreamRef,
  compositorRef,
  audioMixerRef,
  durationIntervalRef,
  chunksRef,           \* sequence of chunks, a chunk <<s, k>> being the k-th
                       \* non-empty chunk of encoder s
  pc,                  \* where each startRecording invocation is suspended
  cap,                 \* the closure of each invocation
  loc,                 \* the local variables mic / systemAudio of each invocation
  outcome,             \* how each invocation ended
  threw,               \* the call of each invocation that threw or rejected, if any
  toasts,              \* notifications each invocation raised
  screenLive,          \* screen stream s has a live track
  screenAudio,         \* screen stream s carries a system-audio track
  micLive,             \* microphone stream s has a live track
  mixer,               \* audio mixer s: open, and its inputs
  compositor,          \* compositor s: render loop running
  recState,            \* MediaRecorder s: none (not created) | inactive | recording | paused
  recEvents,           \* MediaRecorder s: events queued by stop(): data, then stop
  onended,             \* the ended handler is set on screen stream s's video track
  ticker,              \* the setInterval s created is running
  startTimeOf,         \* const startTime of invocation s
  completions,         \* onRecordingComplete calls made by encoder s's handler
  artifact,            \* the blob handed over by encoder s's handler
  durationOut,         \* the duration handed over by encoder s's handler
  now,                 \* wall clock (Date.now()), milliseconds
  settingsChanges,     \* audio settings changes made so far
  cameraEnabled,       \* useState cameraEnabled
  cameraStream,        \* useState: id of the camera stream, or Null
  cameraSettings,      \* useState CameraSettings
  camReq,              \* getCameraStream call c: none | pending | done | failed
  camLive,             \* camera stream c has a live track
  cameraToasts,        \* notifications the camera effect raised
  overlay,             \* compositor s: the camera stream it draws, or Null
  overlaySettings,     \* compositor s: the camera settings it draws with
  encoderTracks,       \* encoder s: video and audio tracks of the stream it was given
  errored,             \* encoder s failed while recording
  pausedMs,            \* time encoder s has spent paused
  cameraSettingsChanges,  \* camera settings changes made so far
  emitted,             \* non-empty chunks encoder s has delivered
  appState,            \* the page: "recording" or "editing"
  recordingData,       \* the page: the finished recording, if any
  editorState,         \* the editor: duration and segments of the timeline
  editorToast,         \* the editor: the last notification it raised
  legacy               \* the legacy recorder (src/app/components/ScreenRecorder.tsx)

vars == << mounted, recordingState, audioSettings, micStream, systemAudioStream,
           mediaRecorderRef, screenStreamRef, compositorRef, audioMixerRef,
           durationIntervalRef, chunksRef, pc, cap, loc, outcome, threw, toasts,
           screenLive, screenAudio, micLive, mixer, compositor, recState,
           recEvents, onended, ticker, startTimeOf, completions, artifact, durationOut, now,
           settingsChanges, cameraEnabled, cameraStream, cameraSettings, camReq,
           camLive, cameraToasts, overlay, overlaySettings, encoderTracks,
           errored, pausedMs, cameraSettingsChanges, emitted, appState,
           recordingData, editorState, editorToast, legacy >>

\* The whole state as one record: the handlers below are functions from
\* state to state, composed in the order the code runs its statements.
St ==
  [ mounted |-> mounted, recordingState |-> recordingState,
    audioSettings |-> audioSettings, micStream |-> micStream,
    systemAudioStream |-> systemAudioStream,
    mediaRecorderRef |-> mediaRecorderRef, screenStreamRef |-> screenStreamRef,
    compositorRef |-> compositorRef, audioMixerRef |-> audioMixerRef,
    durationIntervalRef |-> durationIntervalRef, chunksRef |-> chunksRef,
    pc |-> pc, cap |-> cap, loc |-> loc, outcome |-> outcome, threw |-> threw,
    toasts |-> toasts,
    screenLive |-> screenLive, screenAudio |-> screenAudio,
    micLive |-> micLive, mixer |-> mixer,
    compositor |-> compositor, recState |-> recState, recEvents |-> recEvents,
    onended |-> onended, ticker |-> ticker, startTimeOf |-> startTimeOf,
    completions |-> completions, artifact |-> artifact,
    durationOut |-> durationOut, now |-> now,
    settingsChanges |-> settingsChanges,
    cameraEnabled |-> cameraEnabled, cameraStream |-> cameraStream,
    cameraSettings |-> cameraSettings, camReq |-> camReq, camLive |-> camLive,
    cameraToasts |-> cameraToasts, overlay |-> overlay,
    overlaySettings |-> overlaySettings, encoderTracks |-> encoderTracks,
    errored |-> errored, pausedMs |-> pausedMs,
    cameraSettingsChanges |-> cameraSettingsChanges, emitted |-> emitted,
    appState |-> appState, recordingData |-> recordingData,
    editorState |-> editorState, editorToast |-> editorToast,
    legacy |-> legacy ]

Commit(e) ==
  /\ mounted' = e.mounted
  /\ recordingState' = e.recordingState
  /\ audioSettings' = e.audioSettings
  /\ micStream' = e.micStream
  /\ systemAudioStream' = e.systemAudioStream
  /\ mediaRecorderRef' = e.mediaRecorderRef
  /\ screenStreamRef' = e.screenStreamRef
  /\ compositorRef' = e.compositorRef
  /\ audioMixerRef' = e.audioMixerRef
  /\ durationIntervalRef' = e.durationIntervalRef
  /\ chunksRef' = e.chunksRef
  /\ pc' = e.pc
  /\ cap' = e.cap
  /\ loc' = e.loc
  /\ outcome' = e.outcome
  /\ threw' = e.threw
  /\ toasts' = e.toasts
  /\ screenLive' = e.screenLive
  /\ screenAudio' = e.screenAudio
  /\ micLive' = e.micLive
  /\ mixer' = e.mixer
  /\ compositor' = e.compositor
  /\ recState' = e.recState
  /\ recEvents' = e.recEvents
  /\ onended' = e.onended
  /\ ticker' = e.ticker
  /\ startTimeOf' = e.startTimeOf
  /\ completions' = e.completions
  /\ artifact' = e.artifact
  /\ durationOut' = e.durationOut
  /\ now' = e.now
  /\ settingsChanges' = e.settingsChanges
  /\ cameraEnabled' = e.cameraEnabled
  /\ cameraStream' = e.cameraStream
  /\ cameraSettings' = e.cameraSettings
  /\ camReq' = e.camReq
  /\ camLive' = e.camLive
  /\ cameraToasts' = e.cameraToasts
  /\ overlay' = e.overlay
  /\ overlaySettings' = e.overlaySettings
  /\ encoderTracks' = e.encoderTracks
  /\ errored' = e.errored
  /\ pausedMs' = e.pausedMs
  /\ cameraSettingsChanges' = e.cameraSettingsChanges
  /\ emitted' = e.emitted
  /\ appState' = e.appState
  /\ recordingData' = e.recordingData
  /\ editorState' = e.editorState
  /\ editorToast' = e.editorToast
  /\ legacy' = e.legacy

\* ------------------------------------------------------------- values
IdleRecordingState ==
  [isRecording |-> FALSE, isPaused |-> FALSE, duration |-> 0, startTime |-> NoTime]

DEFAULT_AUDIO_SETTINGS ==
  [microphoneEnabled |-> TRUE, systemAudioEnabled |-> TRUE]

DEFAULT_CAMERA_SETTINGS ==
  [position |-> "bottom-right", size |-> "medium", shape |-> "rectangle"]

NoCap ==
  [audioSettings |-> DEFAULT_AUDIO_SETTINGS, cleanupMic |-> Null,
   camera |-> Null, cameraSettings |-> DEFAULT_CAMERA_SETTINGS]
NoLoc == [mic |-> FALSE, systemAudio |-> FALSE]
NoMixer == [open |-> FALSE, mic |-> FALSE, systemAudio |-> FALSE]
NoTracks == [video |-> 0, audio |-> 0]
\* useState<RecordingData | null>(null)
NoRecordingData == [present |-> FALSE, blob |-> << >>, duration |-> 0]

\* createInitialEditorState(duration): one segment over the whole video.
\* A segment's id is unique in the timeline; it is modelled by the
\* segment's bounds.
createInitialEditorState(duration) ==
  [duration |-> duration,
   segments |-> << [id |-> << 0, duration >>, startTime |-> 0,
                    endTime |-> duration, deleted |-> FALSE] >>]

\* ------------------------------------------------------------- legacy values
\* A rational number n/d in lowest terms, d > 0: the quantities of the
\* legacy render step (a quarter of a width, a height/width ratio) are not
\* integers.
RECURSIVE GCD(_, _)
GCD(a, b) == IF b = 0 THEN a ELSE GCD(b, a % b)

Abs(n) == IF n < 0 THEN 0 - n ELSE n

Rat(n, d) ==
  LET g == GCD(Abs(n), d)
  IN  [n |-> n \div g, d |-> d \div g]

RInt(n) == Rat(n, 1)
RMul(a, b) == Rat(a.n * b.n, a.d * b.d)
RDiv(a, b) == Rat(a.n * b.d, a.d * b.n)
RSub(a, b) == Rat(a.n * b.d - b.n * a.d, a.d * b.d)
RAdd(a, b) == Rat(a.n * b.d + b.n * a.d, a.d * b.d)

NoRect == [drawn |-> FALSE, x |-> RInt(0), y |-> RInt(0),
           width |-> RInt(0), height |-> RInt(0)]
NoVideo == [present |-> FALSE, videoWidth |-> 0, videoHeight |-> 0]
NoSize == [width |-> 0, height |-> 0]
NoLegacyCap ==
  [microphoneEnabled |-> TRUE, webcamEnabled |-> FALSE,
   webcamPosition |-> "bottom-right"]

\* The legacy ScreenRecorder after construction, its webcamPosition being
\* position: useState and useRef initial values.
LegacyConstructed(position) ==
  [ mounted |-> TRUE,
    isRecording |-> FALSE, isPaused |-> FALSE, recordedVideoUrl |-> FALSE,
    webcamEnabled |-> FALSE, microphoneEnabled |-> TRUE,
    webcamPosition |-> position,
    mediaRecorderRef |-> "null",    \* null, or the state of the encoder
    stopEvent |-> FALSE,            \* the encoder's stop event is queued
    screenStreamRef |-> FALSE, micStreamRef |-> FALSE,
    webcamStreamRef |-> FALSE, combinedStreamRef |-> FALSE,
    screenLive |-> FALSE, micLive |-> FALSE, webcamLive |-> FALSE,
    screenSettings |-> NoSize,      \* getSettings() of the screen's video track
    webcamNative |-> NoSize,        \* native size of the webcam's video
    pc |-> "idle",                  \* where handleStartRecording is suspended
    cap |-> NoLegacyCap,            \* its closure
    canvas |-> NoSize, ctx |-> FALSE, webcamVideo |-> NoVideo,
    raf |-> FALSE,                  \* a requestAnimationFrame callback is pending
    overlayRect |-> NoRect,         \* the overlay the last frame drew
    cleaned |-> FALSE,              \* the stop handler has run cleanupStreams
    rescheduled |-> 0,              \* requestAnimationFrame calls made after that
    toast |-> "none" ]

\* The state after the first render and its effects: the camera effect has
\* found cameraEnabled with no cameraStream and called getCameraStream.
InitComponents ==
  /\ mounted = TRUE
  /\ recordingState = IdleRecordingState
  /\ audioSettings = DEFAULT_AUDIO_SETTINGS
  /\ micStream = Null
  /\ systemAudioStream = Null
  /\ mediaRecorderRef = Null
  /\ screenStreamRef = Null
  /\ compositorRef = Null
  /\ audioMixerRef = Null
  /\ durationIntervalRef = Null
  /\ chunksRef = << >>
  /\ pc = [s \in Ids |-> "idle"]
  /\ cap = [s \in Ids |-> NoCap]
  /\ loc = [s \in Ids |-> NoLoc]
  /\ outcome = [s \in Ids |-> "none"]
  /\ threw = [s \in Ids |-> "none"]
  /\ toasts = [s \in Ids |-> {}]
  /\ screenLive = [s \in Ids |-> FALSE]
  /\ screenAudio = [s \in Ids |-> FALSE]
  /\ micLive = [s \in Ids |-> FALSE]
  /\ mixer = [s \in Ids |-> NoMixer]
  /\ compositor = [s \in Ids |-> FALSE]
  /\ recState = [s \in Ids |-> "none"]
  /\ recEvents = [s \in Ids |-> "none"]
  /\ onended = [s \in Ids |-> FALSE]
  /\ ticker = [s \in Ids |-> FALSE]
  /\ startTimeOf = [s \in Ids |-> NoTime]
  /\ completions = [s \in Ids |-> 0]
  /\ artifact = [s \in Ids |-> << >>]
  /\ durationOut = [s \in Ids |-> NoTime]
  /\ now = 0
  /\ settingsChanges = 0
  /\ cameraEnabled = TRUE
  /\ cameraStream = Null
  /\ cameraSettings = DEFAULT_CAMERA_SETTINGS
  /\ camReq = [c \in CamIds |-> IF c = 1 THEN "pending" ELSE "none"]
  /\ camLive = [c \in CamIds |-> FALSE]
  /\ cameraToasts = {}
  /\ overlay = [s \in Ids |-> Null]
  /\ overlaySettings = [s \in Ids |-> DEFAULT_CAMERA_SETTINGS]
  /\ encoderTracks = [s \in Ids |-> NoTracks]
  /\ errored = [s \in Ids |-> FALSE]
  /\ pausedMs = [s \in Ids |-> 0]
  /\ cameraSettingsChanges = 0
  /\ emitted = [s \in Ids |-> 0]
  /\ appState = "recording"
  /\ recordingData = NoRecordingData
  /\ editorState = createInitialEditorState(VideoDuration)
  /\ editorToast = "none"

Init == InitComponents /\ legacy = LegacyConstructed("bottom-right")

\* ------------------------------------------------------------- React state
\* A state setter of an unmounted component changes nothing.
setRecordingState(e, v) ==
  IF e.mounted THEN [e EXCEPT !.recordingState = v] ELSE e

setMicStream(e, v) ==
  IF e.mounted THEN [e EXCEPT !.micStream = v] ELSE e

setSystemAudioStream(e, v) ==
  IF e.mounted THEN [e EXCEPT !.systemAudioStream = v] ELSE e

setCameraStream(e, v) ==
  IF e.mounted THEN [e EXCEPT !.cameraStream = v] ELSE e

setCameraEnabled(e, v) ==
  IF e.mounted THEN [e EXCEPT !.cameraEnabled = v] ELSE e

setCameraSettings(e, v) ==
  IF e.mounted THEN [e EXCEPT !.cameraSettings = v] ELSE e

toast(e, s, what) == [e EXCEPT !.toasts[s] = @ \cup {what}]

\* ------------------------------------------------------------- media objects
\* MediaRecorder.stop(): the encoder becomes inactive at once; a last
\* dataavailable event and then the stop event are queued.
recorderStop(e, r) ==
  [e EXCEPT !.recState[r] = "inactive", !.recEvents[r] = "data"]

\* stopScreenCapture(stream): stops every track of the stream.
stopScreenCapture(e, stream) ==
  IF stream = Null THEN e ELSE [e EXCEPT !.screenLive[stream] = FALSE]

\* stopAudioStream(stream): stops every track of the stream.
stopAudioStream(e, stream) ==
  IF stream = Null THEN e ELSE [e EXCEPT !.micLive[stream] = FALSE]

\* compositor.cleanup(): stops the render loop.
compositorCleanup(e, c) ==
  IF c = Null THEN e ELSE [e EXCEPT !.compositor[c] = FALSE]

\* audioMixer.cleanup(): closes the audio context.
audioMixerCleanup(e, m) ==
  IF m = Null THEN e ELSE [e EXCEPT !.mixer[m].open = FALSE]

\* The video tracks of compositor.canvasStream: the canvas capture exposes
\* one video track.
canvasStreamVideoTracks(e, c) == 1

\* The audio tracks of audioMixer.mixedStream: the destination node's stream
\* has one audio track, whatever inputs are connected.
mixedStreamAudioTracks(e, m) == 1

\* { ...settings, ...partial }: the fields the partial names are replaced.
Merge(settings, partial) ==
  [k \in DOMAIN settings |->
     IF k \in DOMAIN partial THEN partial[k] ELSE settings[k]]

\* compositor.updateCameraSettings(partial): merged into the settings the
\* render loop draws with.
updateCameraSettings(e, c, partial) ==
  IF c = Null THEN e ELSE [e EXCEPT !.overlaySettings[c] = Merge(@, partial)]

\* ------------------------------------------------------------- camera
FreeCamIds(e) == {c \in CamIds : e.camReq[c] = "none"}

\* The camera effect, run after a render in which cameraEnabled or
\* cameraStream changed; the setCameraStream(null) of its second branch
\* re-runs it to no effect.
cameraEffect(e) ==
  IF ~e.mounted THEN e
  ELSE IF e.cameraEnabled /\ e.cameraStream = Null
  THEN LET c == CHOOSE c \in FreeCamIds(e) : \A d \in FreeCamIds(e) : c <= d
       IN [e EXCEPT !.camReq[c] = "pending"]
  ELSE IF ~e.cameraEnabled /\ e.cameraStream # Null
  THEN [e EXCEPT !.camLive[e.cameraStream] = FALSE, !.cameraStream = Null]
  ELSE e

\* getCameraStream() resolved: a stream (ok) or a CameraError.
cameraResolved(e, c, ok) ==
  LET e1 == [e EXCEPT !.camReq[c] = IF ok THEN "done" ELSE "failed"]
  IN IF ok
     THEN LET e2 == setCameraStream([e1 EXCEPT !.camLive[c] = TRUE], c)
          IN IF e2.cameraStream # e1.cameraStream THEN cameraEffect(e2) ELSE e2
     ELSE LET e2 == setCameraEnabled(
                      [e1 EXCEPT !.cameraToasts = @ \cup {"error:camera"}], FALSE)
          IN IF e2.cameraEnabled # e1.cameraEnabled THEN cameraEffect(e2) ELSE e2

toggleCamera(e) == cameraEffect(setCameraEnabled(e, ~e.cameraEnabled))

\* ------------------------------------------------------------- cleanup
\* cleanup that stops the referenced encoder whatever its state and keeps
\* the reference: every run stops the encoder again.
cleanupRestopping(e, capturedMic) ==
  LET e1 == IF e.durationIntervalRef # Null
            THEN [e EXCEPT !.ticker[e.durationIntervalRef] = FALSE,
                           !.durationIntervalRef = Null]
            ELSE e
      e2 == IF e1.mediaRecorderRef # Null
            THEN recorderStop(e1, e1.mediaRecorderRef)
            ELSE e1
      e3 == [compositorCleanup(e2, e2.compositorRef) EXCEPT !.compositorRef = Null]
      e4 == [audioMixerCleanup(e3, e3.audioMixerRef) EXCEPT !.audioMixerRef = Null]
      e5 == [stopScreenCapture(e4, e4.screenStreamRef) EXCEPT !.screenStreamRef = Null]
      e6 == stopAudioStream(e5, capturedMic)
      e7 == setMicStream(e6, Null)
  IN setSystemAudioStream(e7, Null)

\* cleanup closes over micStream: `capturedMic` is the value of the micStream
\* state in the render that created this cleanup callback.
cleanup(e, capturedMic) ==
  LET e1 == IF e.durationIntervalRef # Null
            THEN [e EXCEPT !.ticker[e.durationIntervalRef] = FALSE,
                           !.durationIntervalRef = Null]
            ELSE e
      e2 == IF e1.mediaRecorderRef # Null
            THEN [(IF e1.recState[e1.mediaRecorderRef] # "inactive"
                   THEN recorderStop(e1, e1.mediaRecorderRef)
                   ELSE e1) EXCEPT !.mediaRecorderRef = Null]
            ELSE e1
      e3 == [compositorCleanup(e2, e2.compositorRef) EXCEPT !.compositorRef = Null]
      e4 == [audioMixerCleanup(e3, e3.audioMixerRef) EXCEPT !.audioMixerRef = Null]
      e5 == [stopScreenCapture(e4, e4.screenStreamRef) EXCEPT !.screenStreamRef = Null]
      e6 == stopAudioStream(e5, capturedMic)
      e7 == setMicStream(e6, Null)
  IN setSystemAudioStream(e7, Null)

\* ------------------------------------------------------------- startRecording
\* The microphone requested at once, without waiting for the screen
\* acquisition to resolve.
startRecordingEagerMic(e, s) ==
  [e EXCEPT !.chunksRef = << >>,
            !.cap[s] = [audioSettings |-> e.audioSettings,
                        cleanupMic |-> e.micStream,
                        camera |-> IF e.cameraEnabled THEN e.cameraStream ELSE Null,
                        cameraSettings |-> e.cameraSettings],
            !.pc[s] = IF e.audioSettings.microphoneEnabled
                      THEN "awaitMic" ELSE "awaitScreen"]

\* The invocation begins: the callback invoked is the one of the latest
\* render, so it closes over the settings and the cleanup of that render.
startRecording(e, s) ==
  [e EXCEPT !.chunksRef = << >>,
            !.cap[s] = [audioSettings |-> e.audioSettings,
                        cleanupMic |-> e.micStream,
                        camera |-> IF e.cameraEnabled THEN e.cameraStream ELSE Null,
                        cameraSettings |-> e.cameraSettings],
            !.pc[s] = "awaitScreen"]

\* catch (error): toast.error, cleanup().
startFailed(e, s) ==
  LET e1 == toast(e, s, "error:start")
      e2 == cleanup(e1, e1.cap[s].cleanupMic)
  IN [e2 EXCEPT !.pc[s] = "done", !.outcome[s] = "error"]

\* createAudioMixer(mic, systemAudio), then the call of createCompositor.
buildMixer(e, s, mixerOk) ==
  IF ~mixerOk
  THEN startFailed([e EXCEPT !.threw[s] = "createAudioMixer"], s)
  ELSE [e EXCEPT !.mixer[s] = [open |-> TRUE, mic |-> e.loc[s].mic,
                               systemAudio |-> e.loc[s].systemAudio],
                 !.audioMixerRef = s,
                 !.pc[s] = "awaitCompositor"]

\* The cancel branch without its return: reading screenResult.stream of a
\* null result throws into the catch.
afterScreenNoAbort(e, s, result, mixerOk) ==
  IF result = "null"
  THEN startFailed(toast(e, s, "error:screen"), s)
  ELSE
    LET hasSystemAudio == result = "video+audio"
        e1 == [e EXCEPT !.screenStreamRef = s, !.screenLive[s] = TRUE,
                        !.screenAudio[s] = hasSystemAudio]
        e2 == IF hasSystemAudio /\ e1.cap[s].audioSettings.systemAudioEnabled
              THEN setSystemAudioStream([e1 EXCEPT !.loc[s].systemAudio = TRUE], s)
              ELSE e1
    IN IF e2.cap[s].audioSettings.microphoneEnabled
       THEN [e2 EXCEPT !.pc[s] = "awaitMic"]
       ELSE buildMixer(e2, s, mixerOk)

\* The audio settings read from the component's state when the screen capture
\* resolves, not from the closure of the invocation.
afterScreenCurrentSettings(e, s, result, mixerOk) ==
  IF result = "null"
  THEN [toast(e, s, "error:screen") EXCEPT !.pc[s] = "done",
                                            !.outcome[s] = "cancelled"]
  ELSE
    LET hasSystemAudio == result = "video+audio"
        e1 == [e EXCEPT !.screenStreamRef = s, !.screenLive[s] = TRUE,
                        !.screenAudio[s] = hasSystemAudio]
        e2 == IF hasSystemAudio /\ e1.audioSettings.systemAudioEnabled
              THEN setSystemAudioStream([e1 EXCEPT !.loc[s].systemAudio = TRUE], s)
              ELSE e1
    IN IF e2.audioSettings.microphoneEnabled
       THEN [e2 EXCEPT !.pc[s] = "awaitMic"]
       ELSE buildMixer(e2, s, mixerOk)

\* System audio extracted whenever it was requested, without looking at
\* hasSystemAudio.
afterScreenTrustingRequest(e, s, result, mixerOk) ==
  IF result = "null"
  THEN [toast(e, s, "error:screen") EXCEPT !.pc[s] = "done",
                                            !.outcome[s] = "cancelled"]
  ELSE
    LET hasSystemAudio == result = "video+audio"
        e1 == [e EXCEPT !.screenStreamRef = s, !.screenLive[s] = TRUE,
                        !.screenAudio[s] = hasSystemAudio]
        e2 == IF e1.cap[s].audioSettings.systemAudioEnabled
              THEN setSystemAudioStream([e1 EXCEPT !.loc[s].systemAudio = TRUE], s)
              ELSE e1
    IN IF e2.cap[s].audioSettings.microphoneEnabled
       THEN [e2 EXCEPT !.pc[s] = "awaitMic"]
       ELSE buildMixer(e2, s, mixerOk)

\* startScreenCapture resolved: `result` is "null" (cancelled or denied),
\* "video" or "video+audio" (the stream carries a system-audio track).
afterScreen(e, s, result, mixerOk) ==
  IF result = "null"
  THEN [toast(e, s, "error:screen") EXCEPT !.pc[s] = "done",
                                            !.outcome[s] = "cancelled"]
  ELSE
    LET hasSystemAudio == result = "video+audio"
        e1 == [e EXCEPT !.screenStreamRef = s, !.screenLive[s] = TRUE,
                        !.screenAudio[s] = hasSystemAudio]
        e2 == IF hasSystemAudio /\ e1.cap[s].audioSettings.systemAudioEnabled
              THEN setSystemAudioStream([e1 EXCEPT !.loc[s].systemAudio = TRUE], s)
              ELSE e1
    IN IF e2.cap[s].audioSettings.microphoneEnabled
       THEN [e2 EXCEPT !.pc[s] = "awaitMic"]
       ELSE buildMixer(e2, s, mixerOk)

\* A microphone failure treated as fatal.
afterMicFatal(e, s, micOk, mixerOk) ==
  IF micOk
  THEN buildMixer(setMicStream([e EXCEPT !.micLive[s] = TRUE, !.loc[s].mic = TRUE], s),
                  s, mixerOk)
  ELSE startFailed(toast(e, s, "warning:mic"), s)

\* getMicrophoneStream resolved: a stream (micOk) or a MicError.
afterMic(e, s, micOk, mixerOk) ==
  LET e1 == IF micOk
            THEN setMicStream([e EXCEPT !.micLive[s] = TRUE, !.loc[s].mic = TRUE], s)
            ELSE toast(e, s, "warning:mic")
  IN buildMixer(e1, s, mixerOk)

\* The mixer's track combined only when the mixer has an input.
combinedStreamWithoutSilence(e, s) ==
  [video |-> canvasStreamVideoTracks(e, s),
   audio |-> IF e.mixer[s].mic \/ e.mixer[s].systemAudio
             THEN mixedStreamAudioTracks(e, s) ELSE 0]

\* new MediaStream([...canvasStream video tracks, ...mixedStream audio tracks])
combinedStream(e, s) ==
  [video |-> canvasStreamVideoTracks(e, s), audio |-> mixedStreamAudioTracks(e, s)]

\* createCompositor settled: rejected (~compositorOk), or resolved and the
\* rest of the setup runs without suspension.
afterCompositor(e, s, compositorOk, recorderOk, startOk) ==
  IF ~compositorOk
  THEN LET e1 == toast([e EXCEPT !.threw[s] = "createCompositor"], s,
                       "error:compositor")
           e2 == cleanup(e1, e1.cap[s].cleanupMic)
       IN [e2 EXCEPT !.pc[s] = "done", !.outcome[s] = "error"]
  ELSE
    LET e1 == [e EXCEPT !.compositor[s] = TRUE, !.compositorRef = s,
                        !.overlay[s] = e.cap[s].camera,
                        !.overlaySettings[s] = e.cap[s].cameraSettings]
    IN IF ~recorderOk
       THEN startFailed([e1 EXCEPT !.threw[s] = "createMediaRecorder"], s)
       ELSE
         LET e2 == [e1 EXCEPT !.recState[s] = "inactive",
                              !.encoderTracks[s] = combinedStream(e1, s),
                              !.mediaRecorderRef = s,
                              !.startTimeOf[s] = e1.now,
                              !.onended[s] = TRUE]
         IN IF ~startOk
            THEN startFailed([e2 EXCEPT !.threw[s] = "recorder.start"], s)
            ELSE
              LET e3 == [e2 EXCEPT !.recState[s] = "recording"]
                  e4 == setRecordingState(e3,
                          [isRecording |-> TRUE, isPaused |-> FALSE,
                           duration |-> 0, startTime |-> e3.now])
                  e5 == [e4 EXCEPT !.durationIntervalRef = s, !.ticker[s] = TRUE]
              IN [toast(e5, s, "success:started") EXCEPT
                     !.pc[s] = "done", !.outcome[s] = "live"]

\* ------------------------------------------------------------- encoder events
\* recorder.ondataavailable
ondataavailable(e, s, nonEmpty) ==
  IF nonEmpty
  THEN [e EXCEPT !.chunksRef = Append(@, << s, e.emitted[s] + 1 >>),
                 !.emitted[s] = @ + 1]
  ELSE e

\* The elapsed time with the time spent paused taken out.
elapsedSecondsUnpaused(e, s) ==
  (e.now - e.startTimeOf[s] - e.pausedMs[s]) \div 1000

\* Math.floor((Date.now() - startTime) / 1000)
elapsedSeconds(e, s) == (e.now - e.startTimeOf[s]) \div 1000

\* The stop handler without its reset of the recording state.
onstopKeepingRecordingState(e, s) ==
  LET duration == elapsedSeconds(e, s)
      blob == e.chunksRef
      e1 == cleanup(e, e.cap[s].cleanupMic)
      e3 == [e1 EXCEPT !.completions[s] = @ + 1,
                       !.artifact[s] = blob,
                       !.durationOut[s] = duration]
  IN toast(e3, s, "success:completed")

\* recorder.onstop of invocation s
onstop(e, s) ==
  LET duration == elapsedSeconds(e, s)
      blob == e.chunksRef
      e1 == cleanup(e, e.cap[s].cleanupMic)
      e2 == setRecordingState(e1, IdleRecordingState)
      e3 == [e2 EXCEPT !.completions[s] = @ + 1,
                       !.artifact[s] = blob,
                       !.durationOut[s] = duration]
  IN toast(e3, s, "success:completed")

\* ------------------------------------------------------------- controls
\* stop() that finalizes at once and still leaves the stop event queued.
stopRecordingEager(e) ==
  IF e.mediaRecorderRef # Null /\ e.recState[e.mediaRecorderRef] # "inactive"
  THEN onstop(recorderStop(e, e.mediaRecorderRef), e.mediaRecorderRef)
  ELSE e

\* stop() that releases the session's resources without waiting for the event.
stopRecordingReleasing(e) ==
  IF e.mediaRecorderRef # Null /\ e.recState[e.mediaRecorderRef] # "inactive"
  THEN [cleanup(e, Null) EXCEPT !.mediaRecorderRef = e.mediaRecorderRef]
  ELSE e

\* stop() without its check of the encoder's state.
stopRecordingUnchecked(e) ==
  IF e.mediaRecorderRef # Null
  THEN recorderStop(e, e.mediaRecorderRef)
  ELSE e

stopRecording(e) ==
  IF e.mediaRecorderRef # Null /\ e.recState[e.mediaRecorderRef] # "inactive"
  THEN recorderStop(e, e.mediaRecorderRef)
  ELSE e

\* pause() without its check of the encoder.
pauseRecordingUnguarded(e) ==
  setRecordingState(
    IF e.mediaRecorderRef # Null /\ e.recState[e.mediaRecorderRef] = "recording"
    THEN [e EXCEPT !.recState[e.mediaRecorderRef] = "paused"]
    ELSE e,
    [e.recordingState EXCEPT !.isPaused = TRUE])

\* pause() written as a toggle.
pauseRecordingToggle(e) ==
  IF e.mediaRecorderRef # Null /\ e.recState[e.mediaRecorderRef] = "recording"
  THEN setRecordingState([e EXCEPT !.recState[e.mediaRecorderRef] = "paused"],
                         [e.recordingState EXCEPT !.isPaused = TRUE])
  ELSE IF e.mediaRecorderRef # Null /\ e.recState[e.mediaRecorderRef] = "paused"
  THEN setRecordingState([e EXCEPT !.recState[e.mediaRecorderRef] = "recording"],
                         [e.recordingState EXCEPT !.isPaused = FALSE])
  ELSE e

pauseRecording(e) ==
  IF e.mediaRecorderRef # Null /\ e.recState[e.mediaRecorderRef] = "recording"
  THEN setRecordingState([e EXCEPT !.recState[e.mediaRecorderRef] = "paused"],
                         [e.recordingState EXCEPT !.isPaused = TRUE])
  ELSE e

\* resume() that resumes the encoder and leaves the recording state.
resumeRecordingEncoderOnly(e) ==
  IF e.mediaRecorderRef # Null /\ e.recState[e.mediaRecorderRef] = "paused"
  THEN [e EXCEPT !.recState[e.mediaRecorderRef] = "recording"]
  ELSE e

resumeRecording(e) ==
  IF e.mediaRecorderRef # Null /\ e.recState[e.mediaRecorderRef] = "paused"
  THEN setRecordingState([e EXCEPT !.recState[e.mediaRecorderRef] = "recording"],
                         [e.recordingState EXCEPT !.isPaused = FALSE])
  ELSE e

\* The ended event with no handler stopping the encoder.
screenTrackEndedIgnored(e, s) == [e EXCEPT !.screenLive[s] = FALSE]

\* The ended event of screen stream s's video track, and its handler when
\* the invocation has set it.
screenTrackEnded(e, s) ==
  LET e1 == [e EXCEPT !.screenLive[s] = FALSE]
  IN IF e1.onended[s]
        /\ (e1.mediaRecorderRef = Null
            \/ e1.recState[e1.mediaRecorderRef] # "inactive")
     THEN stopRecording(e1)
     ELSE e1

\* The setInterval callback of invocation s.
durationTick(e, s) ==
  setRecordingState(e,
    [e.recordingState EXCEPT
       !.duration = IF e.recordingState.isPaused
                    THEN e.recordingState.duration
                    ELSE elapsedSeconds(e, s)])

handleAudioSettingsChange(e, field) ==
  IF field = "microphoneEnabled"
  THEN [e EXCEPT !.audioSettings.microphoneEnabled = ~@]
  ELSE [e EXCEPT !.audioSettings.systemAudioEnabled = ~@]

\* The partial applied to the default settings instead of the current ones.
handleCameraSettingsChangeReplacing(e, partial) ==
  updateCameraSettings(
    setCameraSettings(e, Merge(DEFAULT_CAMERA_SETTINGS, partial)),
    e.compositorRef, Merge(DEFAULT_CAMERA_SETTINGS, partial))

handleCameraSettingsChange(e, partial) ==
  updateCameraSettings(setCameraSettings(e, Merge(e.cameraSettings, partial)),
                       e.compositorRef, partial)

\* The unmount effect runs the cleanup of the first render, which closed
\* over the initial micStream (null).
unmount(e) == cleanup([e EXCEPT !.mounted = FALSE], Null)

\* ------------------------------------------------------------- the page
\* Home.handleRecordingComplete without its setRecordingData.
handleRecordingCompleteWithoutData(e, blob, duration) ==
  [e EXCEPT !.appState = "editing"]

\* Home.handleRecordingComplete(blob, duration)
handleRecordingComplete(e, blob, duration) ==
  [e EXCEPT !.recordingData = [present |-> TRUE, blob |-> blob,
                               duration |-> duration],
            !.appState = "editing"]

\* Home.handleBackToRecording
handleBackToRecording(e) ==
  [e EXCEPT !.recordingData = NoRecordingData, !.appState = "recording"]

\* <ScreenRecorder/> mounted anew: a fresh instance with its initial state
\* and null refs, whose camera effect runs after the first render.  Media
\* objects of an earlier instance stay what they are.
mountRecorder(e) ==
  cameraEffect(
    [e EXCEPT !.mounted = TRUE,
              !.recordingState = IdleRecordingState,
              !.audioSettings = DEFAULT_AUDIO_SETTINGS,
              !.micStream = Null,
              !.systemAudioStream = Null,
              !.mediaRecorderRef = Null,
              !.screenStreamRef = Null,
              !.compositorRef = Null,
              !.audioMixerRef = Null,
              !.durationIntervalRef = Null,
              !.chunksRef = << >>,
              !.cameraEnabled = TRUE,
              !.cameraStream = Null,
              !.cameraSettings = DEFAULT_CAMERA_SETTINGS])

\* Home's conditional rendering after a state change: the recorder is
\* rendered when appState is 'recording', the editor when it is 'editing'
\* and there is a recording, nothing otherwise.
renderHome(e) ==
  IF e.appState = "recording"
  THEN IF e.mounted THEN e ELSE mountRecorder(e)
  ELSE IF e.mounted THEN unmount(e) ELSE e

\* The editor is rendered.
editorShown(e) == e.appState # "recording" /\ e.recordingData.present

\* recorder.onstop in the page: onRecordingComplete is
\* Home.handleRecordingComplete, and the page renders again.
onstopInHome(e, s) ==
  LET e1 == onstop(e, s)
  IN renderHome(handleRecordingComplete(e1, e1.artifact[s], e1.durationOut[s]))

\* ------------------------------------------------------------- the editor
\* getActiveSegments(state): the segments not marked deleted.
getActiveSegments(state) ==
  SelectSeq(state.segments, LAMBDA seg : ~seg.deleted)

\* deleteSegment(state, segmentId): the segment with that id marked deleted.
deleteSegment(state, segmentId) ==
  [state EXCEPT !.segments =
     [i \in DOMAIN @ |-> IF @[i].id = segmentId
                         THEN [@[i] EXCEPT !.deleted = TRUE] ELSE @[i]]]

\* restoreSegment(state, segmentId): the mark removed.
restoreSegment(state, segmentId) ==
  [state EXCEPT !.segments =
     [i \in DOMAIN @ |-> IF @[i].id = segmentId
                         THEN [@[i] EXCEPT !.deleted = FALSE] ELSE @[i]]]

\* splitSegment(state, segmentId, time): the segment replaced by its two
\* parts when the time lies strictly inside it.
splitSegment(state, segmentId, time) ==
  LET segs == state.segments
      hit == {i \in DOMAIN segs :
                /\ segs[i].id = segmentId
                /\ segs[i].startTime < time /\ time < segs[i].endTime}
  IN IF hit = {} THEN state
     ELSE LET i == CHOOSE j \in hit : TRUE
              left == [segs[i] EXCEPT !.id = << segs[i].startTime, time >>,
                                      !.endTime = time]
              right == [segs[i] EXCEPT !.id = << time, segs[i].endTime >>,
                                       !.startTime = time]
          IN [state EXCEPT !.segments =
                SubSeq(segs, 1, i - 1) \o << left, right >>
                  \o SubSeq(segs, i + 1, Len(segs))]

\* handleDeleteSegment without its check of the active segments.
handleDeleteSegmentUnguarded(e, segmentId) ==
  [e EXCEPT !.editorState = deleteSegment(@, segmentId),
            !.editorToast = "success:deleted"]

\* VideoEditor.handleDeleteSegment(segmentId): the callback is the one of
\* the latest render, so the editorState it closes over is the current one.
handleDeleteSegment(e, segmentId) ==
  LET activeSegments == getActiveSegments(e.editorState)
  IN IF Len(activeSegments) <= 1
     THEN [e EXCEPT !.editorToast = "error:last-segment"]
     ELSE [e EXCEPT !.editorState = deleteSegment(@, segmentId),
                    !.editorToast = "success:deleted"]

handleRestoreSegment(e, segmentId) ==
  [e EXCEPT !.editorState = restoreSegment(@, segmentId),
            !.editorToast = "success:restored"]

handleSplit(e, segmentId, time) ==
  [e EXCEPT !.editorState = splitSegment(@, segmentId, time),
            !.editorToast = "success:split"]

handleReset(e) ==
  [e EXCEPT !.editorState = createInitialEditorState(e.editorState.duration),
            !.editorToast = "info:reset"]

\* The ids of the segments of the timeline.
SegmentIds(state) == {state.segments[i].id : i \in DOMAIN state.segments}

\* ------------------------------------------------------------- actions
\* The Record button: shown while recordingState.isRecording is false, so a
\* second start() can be issued while an earlier one is still acquiring.
StartRecordingWithin(n) ==
  \E s \in 1..n :
    /\ mounted /\ ~recordingState.isRecording
    /\ pc[s] = "idle"
    /\ \A t \in Ids : t < s => pc[t] # "idle"
    /\ Commit(startRecording(St, s))

StartRecording == StartRecordingWithin(MaxStarts)

ScreenResolved ==
  \E s \in Ids, result \in {"null", "video", "video+audio"}, mixerOk \in BOOLEAN :
    /\ pc[s] = "awaitScreen"
    /\ result = "video+audio" => cap[s].audioSettings.systemAudioEnabled
    /\ Commit(afterScreen(St, s, result, mixerOk))

MicResolved ==
  \E s \in Ids, micOk \in BOOLEAN, mixerOk \in BOOLEAN :
    /\ pc[s] = "awaitMic"
    /\ Commit(afterMic(St, s, micOk, mixerOk))

CompositorResolved ==
  \E s \in Ids, compositorOk \in BOOLEAN, recorderOk \in BOOLEAN, startOk \in BOOLEAN :
    /\ pc[s] = "awaitCompositor"
    /\ Commit(afterCompositor(St, s, compositorOk, recorderOk, startOk))

\* A dataavailable event of encoder s: a timeslice chunk while it records, or
\* the last chunk that stop() queues before the stop event.  `sizes` says
\* whether the blobs delivered may be non-empty.
DataAvailable(sizes) ==
  \E s \in Ids, nonEmpty \in sizes :
    /\ \/ recState[s] = "recording" /\ Len(chunksRef) < MaxChunks
       \/ recEvents[s] = "data"
    /\ nonEmpty => Len(chunksRef) < MaxChunks
    /\ Commit(ondataavailable(
         [St EXCEPT !.recEvents[s] = IF @ = "data" THEN "stop" ELSE @], s, nonEmpty))

OnStop ==
  \E s \in Ids :
    /\ recEvents[s] = "stop"
    /\ Commit(onstop([St EXCEPT !.recEvents[s] = "none"], s))

StopRecording == mounted /\ Commit(stopRecording(St))

PauseRecording == mounted /\ Commit(pauseRecording(St))

ResumeRecording == mounted /\ Commit(resumeRecording(St))

ScreenTrackEnded ==
  \E s \in Ids : screenLive[s] /\ Commit(screenTrackEnded(St, s))

DurationTick ==
  \E s \in Ids : ticker[s] /\ Commit(durationTick(St, s))

\* AudioControls is disabled while recordingState.isRecording.
HandleAudioSettingsChange ==
  \E field \in {"microphoneEnabled", "systemAudioEnabled"} :
    /\ mounted /\ ~recordingState.isRecording
    /\ settingsChanges < MaxSettingsChanges
    /\ Commit(handleAudioSettingsChange(
         [St EXCEPT !.settingsChanges = @ + 1], field))

Unmount == mounted /\ Commit(unmount(St))

\* Time passes: Date.now() grows, and a paused encoder stays paused meanwhile.
AdvanceClock ==
  /\ now + ClockStep <= MaxTime
  /\ Commit([St EXCEPT !.now = @ + ClockStep,
                        !.pausedMs = [s \in Ids |->
                                        IF recState[s] = "paused"
                                        THEN @[s] + ClockStep ELSE @[s]]])

\* The camera button of RecordingControls.
ToggleCamera ==
  /\ mounted
  /\ ~cameraEnabled => FreeCamIds(St) # {}
  /\ Commit(toggleCamera(St))

CameraResolved ==
  \E c \in CamIds, ok \in BOOLEAN :
    /\ camReq[c] = "pending"
    /\ Commit(cameraResolved(St, c, ok))

\* The partial settings CameraOverlay reports.
Partials == {[position |-> "top-left"], [size |-> "small", shape |-> "circle"]}

\* CameraOverlay is rendered while cameraEnabled && cameraStream.
HandleCameraSettingsChange ==
  \E partial \in Partials :
    /\ mounted /\ cameraEnabled /\ cameraStream # Null
    /\ cameraSettingsChanges < MaxCameraSettingsChanges
    /\ Commit(handleCameraSettingsChange(
         [St EXCEPT !.cameraSettingsChanges = @ + 1], partial))

\* Encoder s fails while it records: the encoder becomes inactive and its
\* error event, a last dataavailable event and its stop event are queued.  No
\* onerror handler is set, so the error event itself reaches no code.
encoderError(e, s) == recorderStop([e EXCEPT !.errored[s] = TRUE], s)

EncoderError ==
  \E s \in Ids :
    /\ recState[s] \in {"recording", "paused"}
    /\ Commit(encoderError(St, s))

\* The session's control: the encoder's data events carry empty blobs (the
\* handler ignores them), the clock stands still and the camera request made
\* on mount stays pending; neither the chunk buffer, the clock nor the camera
\* is read by any guard.
Next ==
  \/ StartRecording
  \/ ScreenResolved
  \/ MicResolved
  \/ CompositorResolved
  \/ DataAvailable({FALSE})
  \/ OnStop
  \/ StopRecording
  \/ PauseRecording
  \/ ResumeRecording
  \/ ScreenTrackEnded
  \/ DurationTick
  \/ HandleAudioSettingsChange
  \/ Unmount

Spec == Init /\ [][Next]_vars

\* One start() followed together with failures of its encoder.
NextEncoder ==
  \/ StartRecordingWithin(MaxFollowedStarts)
  \/ ScreenResolved
  \/ MicResolved
  \/ CompositorResolved
  \/ DataAvailable({FALSE})
  \/ OnStop
  \/ StopRecording
  \/ PauseRecording
  \/ ResumeRecording
  \/ ScreenTrackEnded
  \/ DurationTick
  \/ HandleAudioSettingsChange
  \/ Unmount
  \/ EncoderError

SpecEncoder == Init /\ [][NextEncoder]_vars

\* The session under its initial audio settings, with the chunks its
\* encoders deliver.
NextChunks ==
  \/ StartRecording
  \/ ScreenResolved
  \/ MicResolved
  \/ CompositorResolved
  \/ DataAvailable(BOOLEAN)
  \/ OnStop
  \/ StopRecording
  \/ PauseRecording
  \/ ResumeRecording
  \/ ScreenTrackEnded
  \/ DurationTick
  \/ Unmount

SpecChunks == Init /\ [][NextChunks]_vars

\* One start() followed together with the camera and its settings.
NextCamera ==
  \/ StartRecordingWithin(MaxFollowedStarts)
  \/ ScreenResolved
  \/ MicResolved
  \/ CompositorResolved
  \/ DataAvailable({FALSE})
  \/ OnStop
  \/ StopRecording
  \/ PauseRecording
  \/ ResumeRecording
  \/ ScreenTrackEnded
  \/ DurationTick
  \/ HandleAudioSettingsChange
  \/ Unmount
  \/ ToggleCamera
  \/ CameraResolved
  \/ HandleCameraSettingsChange

SpecCamera == Init /\ [][NextCamera]_vars

\* One start() followed together with the wall clock.
NextClock ==
  \/ StartRecordingWithin(MaxFollowedStarts)
  \/ ScreenResolved
  \/ MicResolved
  \/ CompositorResolved
  \/ DataAvailable({FALSE})
  \/ OnStop
  \/ StopRecording
  \/ PauseRecording
  \/ ResumeRecording
  \/ ScreenTrackEnded
  \/ DurationTick
  \/ HandleAudioSettingsChange
  \/ Unmount
  \/ AdvanceClock

SpecClock == Init /\ [][NextClock]_vars

\* Overlapping invocations of startRecording under the wall clock, with the
\* user's stop as the only control.
NextOverlapClock ==
  \/ StartRecording
  \/ ScreenResolved
  \/ MicResolved
  \/ CompositorResolved
  \/ DataAvailable({FALSE})
  \/ OnStop
  \/ StopRecording
  \/ DurationTick
  \/ AdvanceClock

SpecOverlapClock == Init /\ [][NextOverlapClock]_vars

\* The recorder inside the page: the completion of a session goes to
\* Home.handleRecordingComplete, the editor's Back button to
\* Home.handleBackToRecording, and the page alone mounts and unmounts the
\* recorder.
RecordingComplete ==
  \E s \in Ids :
    /\ recEvents[s] = "stop"
    /\ Commit(onstopInHome([St EXCEPT !.recEvents[s] = "none"], s))

BackToRecording ==
  /\ editorShown(St)
  /\ FreeCamIds(St) # {}
  /\ Commit(renderHome(handleBackToRecording(St)))

NextHome ==
  \/ StartRecordingWithin(MaxFollowedStarts)
  \/ ScreenResolved
  \/ MicResolved
  \/ CompositorResolved
  \/ DataAvailable(BOOLEAN)
  \/ RecordingComplete
  \/ StopRecording
  \/ PauseRecording
  \/ ResumeRecording
  \/ ScreenTrackEnded
  \/ DurationTick
  \/ AdvanceClock
  \/ BackToRecording

SpecHome == Init /\ [][NextHome]_vars

\* The editor on a recording of VideoDuration seconds.
HandleDeleteSegment ==
  \E id \in SegmentIds(editorState) : Commit(handleDeleteSegment(St, id))

HandleRestoreSegment ==
  \E id \in SegmentIds(editorState) : Commit(handleRestoreSegment(St, id))

HandleSplit ==
  \E id \in SegmentIds(editorState), time \in 1..(VideoDuration - 1) :
    Commit(handleSplit(St, id, time))

HandleReset ==
  /\ Len(editorState.segments) >= 1
  /\ Commit(handleReset(St))

NextEditor ==
  \/ HandleDeleteSegment
  \/ HandleRestoreSegment
  \/ HandleSplit
  \/ HandleReset

SpecEditor == Init /\ [][NextEditor]_vars

\* ------------------------------------------------------------- properties
Active(s) == recState[s] \in {"recording", "paused"}

\* The encoder the recorder references has been stopped and its completion
\* event has not been handled yet.
Finalizing(s) ==
  /\ mediaRecorderRef = s
  /\ recState[s] = "inactive"
  /\ recEvents[s] # "none"

\* C1: after stop() and the encoder's completion event, every capture source
\* the session's start() acquired (screen, microphone) has no live track.
C1_SourcesReleasedAfterStop ==
  \A s \in Ids : completions[s] > 0 => ~screenLive[s] /\ ~micLive[s]

\* C2: when compositor construction fails the start ends in an error with the
\* recorder Idle, no encoder created, and every source acquired before the
\* failure released.
C2_CompositorFailureRollsBack ==
  [][\A s \in Ids :
       (pc[s] = "awaitCompositor" /\ threw'[s] = "createCompositor")
       => /\ pc'[s] = "done" /\ outcome'[s] = "error"
          /\ ~recordingState'.isRecording
          /\ recState'[s] = "none"
          /\ ~screenLive'[s]
          /\ ~micLive'[s]]_vars

\* C3: onRecordingComplete is invoked at most once per session, and never for
\* a start() that did not reach Live.
C3_CompleteAtMostOnce ==
  \A s \in Ids :
    /\ completions[s] <= 1
    /\ completions[s] > 0 => outcome[s] = "live"

\* A session completed once although its encoder was asked to stop again
\* (the screen track ended after stop(), or the component was torn down).
C3_Witness ==
  \E s \in Ids :
    /\ completions[s] = 1
    /\ onended[s] /\ ~mounted
    /\ \E t \in Ids : outcome[t] \in {"cancelled", "error"} /\ completions[t] = 0

\* C4: once the component has been torn down, in whatever state teardown
\* found it, no source has a live track and no compositor, mixer, encoder or
\* ticker is running, and a start() that was suspended acquires nothing.
C4_TeardownReleasesEverything ==
  ~mounted =>
    \A s \in Ids :
      /\ ~screenLive[s] /\ ~micLive[s]
      /\ ~compositor[s] /\ ~mixer[s].open
      /\ ~Active(s) /\ ~ticker[s]

\* C5: at most one set of live resources exists, and every live screen stream
\* and every running encoder is the one the recorder references.
C5_OneSession ==
  /\ Cardinality({s \in Ids : screenLive[s]}) <= 1
  /\ Cardinality({s \in Ids : Active(s)}) <= 1
  /\ Cardinality({s \in Ids : ticker[s]}) <= 1
  /\ \A s \in Ids : screenLive[s] => screenStreamRef = s
  /\ \A s \in Ids : Active(s) => mediaRecorderRef = s

\* C6: stop() only stops the encoder: RecordingState, the sources, the
\* compositor, the mixer, the artifact and the completion count are as
\* before; while the completion event of the referenced encoder is
\* outstanding isRecording is true, nothing has completed and no step
\* releases the session's compositor, mixer or sources; and
\* isRecording falls, the artifact is assembled and onRecordingComplete is
\* called only in a step that handles an encoder's stop event.
C6_StopOnlyStopsEncoder ==
  \A s \in Ids :
    (mediaRecorderRef = s /\ Active(s)) =>
      stopRecording(St) = [St EXCEPT !.recState[s] = "inactive",
                                     !.recEvents[s] = "data"]

C6_NotTerminalBeforeEvent ==
  \A s \in Ids :
    Finalizing(s) =>
      /\ mounted => recordingState.isRecording
      /\ completions[s] = 0 /\ artifact[s] = << >>

C6_NothingReleasedWhileFinalizing ==
  [][\A s \in Ids :
       (Finalizing(s) /\ Finalizing(s)') =>
         /\ compositor'[s] = compositor[s]
         /\ mixer'[s] = mixer[s]
         /\ micLive'[s] = micLive[s]
         /\ (screenLive[s] /\ ~screenLive'[s]) => Commit(screenTrackEnded(St, s))]_vars

C6_OnlyCompletionHandlerFinalizes ==
  [][(\/ completions' # completions
      \/ artifact' # artifact
      \/ recordingState.isRecording /\ ~recordingState'.isRecording)
     => \E s \in Ids : recEvents[s] = "stop" /\ recEvents'[s] = "none"]_vars

C7_EndedActsAsStop ==
  \A s \in Ids :
    (onended[s] /\ screenLive[s] /\ Active(s)) =>
      LET e == screenTrackEnded(St, s)
          f == onstop([e EXCEPT !.recEvents[s] = "none"], s)
      IN /\ e = [stopRecording(St) EXCEPT !.screenLive[s] = FALSE]
         /\ mediaRecorderRef = s =>
              /\ e.recState[s] = "inactive" /\ e.recEvents[s] = "data"
              /\ mounted => f.recordingState = IdleRecordingState
              /\ f.completions[s] = 1
              /\ f.mediaRecorderRef = Null

\* The screen track of a Live session can end, in Recording and in Paused.
C7_Witness ==
  \E s \in Ids :
    /\ onended[s] /\ screenLive[s] /\ mediaRecorderRef = s /\ mounted
    /\ recState[s] = "paused" /\ recordingState.isPaused

\* C8: pause() in Live(Paused) and resume() in Live(Recording) change nothing;
\* pause() in Live(Recording) gives Live(Paused) and resume() in Live(Paused)
\* gives Live(Recording).
C8_PauseResume ==
  \A s \in Ids :
    (mounted /\ mediaRecorderRef = s) =>
      /\ recState[s] = "paused" =>
           /\ pauseRecording(St) = St
           /\ resumeRecording(St) =
                [St EXCEPT !.recState[s] = "recording",
                           !.recordingState.isPaused = FALSE]
      /\ recState[s] = "recording" =>
           /\ resumeRecording(St) = St
           /\ pauseRecording(St) =
                [St EXCEPT !.recState[s] = "paused",
                           !.recordingState.isPaused = TRUE]

\* Live(Paused), reached by pause().
C8_Witness ==
  \E s \in Ids :
    /\ mounted /\ mediaRecorderRef = s /\ recState[s] = "paused"
    /\ recordingState.isRecording /\ recordingState.isPaused

\* C9: a cancelled or denied screen capture ends the start() without a
\* session: that step leaves RecordingState and every ref as they were, and
\* the invocation never requests the microphone, builds no mixer, compositor
\* or encoder and never completes.
C9_CancelledStaysOut ==
  \A s \in Ids :
    "error:screen" \in toasts[s] =>
      /\ pc[s] = "done" /\ outcome[s] = "cancelled"
      /\ ~screenLive[s] /\ ~micLive[s] /\ loc[s] = NoLoc
      /\ mixer[s] = NoMixer /\ ~compositor[s] /\ recState[s] = "none"
      /\ ~ticker[s] /\ completions[s] = 0
      /\ toasts[s] = {"error:screen"}

C9_CancelStep ==
  [][\A s \in Ids :
       (pc[s] = "awaitScreen" /\ "error:screen" \in toasts'[s])
       => /\ recordingState' = recordingState
          /\ mediaRecorderRef' = mediaRecorderRef
          /\ screenStreamRef' = screenStreamRef
          /\ compositorRef' = compositorRef
          /\ audioMixerRef' = audioMixerRef
          /\ durationIntervalRef' = durationIntervalRef
          /\ micStream' = micStream]_vars

\* C9, stated whole: a cancelled screen capture starts no session.
C9_ScreenCancelAborts == []C9_CancelledStaysOut /\ C9_CancelStep

\* The first start() was cancelled and the recorder is Idle.
C9_Witness ==
  /\ outcome[1] = "cancelled" /\ cap[1].audioSettings.microphoneEnabled
  /\ recordingState = IdleRecordingState

\* C10: a microphone failure is surfaced as a warning and is not fatal: the
\* start() goes on to build the mixer without a microphone input, and a
\* session that reached Live after it records without microphone.
C10_MicFailureState ==
  \A s \in Ids :
    "warning:mic" \in toasts[s] =>
      /\ cap[s].audioSettings.microphoneEnabled
      /\ ~loc[s].mic /\ ~micLive[s] /\ ~mixer[s].mic

C10_MicFailureStep ==
  [][\A s \in Ids :
       (pc[s] = "awaitMic" /\ "warning:mic" \in toasts'[s]
          /\ threw'[s] # "createAudioMixer")
       => /\ pc'[s] = "awaitCompositor" /\ outcome'[s] = "none"
          /\ mixer'[s].open /\ audioMixerRef' = s
          /\ toasts'[s] = toasts[s] \cup {"warning:mic"}]_vars

\* C10, stated whole: a microphone failure degrades the session, with a warning.
C10_MicFailureDegrades == []C10_MicFailureState /\ C10_MicFailureStep

\* Live(Recording) reached after the microphone failed.
C10_Witness ==
  \E s \in Ids :
    /\ "warning:mic" \in toasts[s] /\ outcome[s] = "live"
    /\ recState[s] = "recording" /\ mixer[s].open /\ ~mixer[s].mic
    /\ mounted /\ recordingState.isRecording /\ ~recordingState.isPaused

\* The encoder the recorder references is recording or paused.
Live(s) == mediaRecorderRef = s /\ Active(s)

\* C11: a camera failure is recorded as a warning; it changes no start() in
\* progress and no session; a start() issued while there is no camera stream
\* builds its compositor with no overlay source, and goes Live like any other.
C11_CameraFailureIsWarning ==
  \A c \in CamIds : camReq[c] = "failed" => "warning:camera" \in cameraToasts

C11_CameraFailureLeavesSession ==
  [][\A c \in CamIds :
       (camReq[c] = "pending" /\ camReq'[c] = "failed")
       => /\ mounted => ~cameraEnabled' /\ cameraStream' = Null
          /\ UNCHANGED << pc, outcome, threw, toasts, recState, recEvents,
                          recordingState, compositor, overlay, screenLive,
                          micLive, mixer >>]_vars

C11_NoOverlayWithoutCamera ==
  /\ [][\A s \in Ids :
          (pc[s] = "idle" /\ pc'[s] = "awaitScreen" /\ cameraStream = Null)
          => cap'[s].camera = Null]_vars
  /\ [](\A s \in Ids : compositor[s] => overlay[s] = cap[s].camera)
  /\ [][\A s \in Ids :
          (pc[s] = "awaitCompositor" /\ pc'[s] = "done" /\ threw'[s] = "none")
          => /\ outcome'[s] = "live" /\ recState'[s] = "recording"
             /\ overlay'[s] = cap[s].camera]_vars

\* C11, stated whole.
C11_CameraFailureDegrades ==
  /\ []C11_CameraFailureIsWarning
  /\ C11_CameraFailureLeavesSession
  /\ C11_NoOverlayWithoutCamera

\* Live(Recording) reached by a start() issued after the camera failed.
C11_LiveAfterCameraFailure ==
  \E s \in Ids :
    /\ camReq[1] = "failed" /\ Live(s) /\ recState[s] = "recording"
    /\ mounted /\ recordingState.isRecording
    /\ compositor[s] /\ overlay[s] = Null /\ cap[s].camera = Null

\* C12: the start timestamp is the clock's value in the step that starts the
\* encoder and never changes; the duration handed to onRecordingComplete is
\* the number d of whole seconds with d*1000 <= elapsed < (d+1)*1000, where
\* elapsed is the wall-clock time from the start timestamp to the completion
\* event, time spent paused included.
C12_StartTimestampFixed ==
  [][\A s \in Ids :
       /\ (recState[s] # "recording" /\ pc[s] = "awaitCompositor"
             /\ recState'[s] = "recording") => startTimeOf'[s] = now
       /\ startTimeOf[s] # NoTime => startTimeOf'[s] = startTimeOf[s]]_vars

C12_DurationFloorsElapsed ==
  [][\A s \in Ids :
       completions'[s] = completions[s] + 1
       => /\ durationOut'[s] * 1000 <= now - startTimeOf[s]
          /\ now - startTimeOf[s] < (durationOut'[s] + 1) * 1000]_vars

C12_DurationIsWallClockSeconds ==
  C12_StartTimestampFixed /\ C12_DurationFloorsElapsed

\* A session that ran 1500 ms, 1000 ms of them paused, completed with 1 s.
C12_Witness ==
  \E s \in Ids :
    /\ completions[s] = 1 /\ durationOut[s] = 1
    /\ now - startTimeOf[s] = 1500 /\ pausedMs[s] = 1000

\* C13: whatever camera, microphone and system audio are present, a start()
\* whose screen capture is granted and whose setup steps do not throw goes
\* on to the next setup step and ends in Live(Recording), and every encoder
\* is created on a stream of exactly one video and one audio track.
C13_GrantedStartGoesLive ==
  [][\A s \in Ids :
       /\ (pc[s] = "awaitScreen" /\ screenLive'[s] /\ threw'[s] = "none")
            => pc'[s] = (IF cap[s].audioSettings.microphoneEnabled
                         THEN "awaitMic" ELSE "awaitCompositor")
       /\ (pc[s] = "awaitMic" /\ pc'[s] # "awaitMic" /\ threw'[s] = "none")
            => pc'[s] = "awaitCompositor"
       /\ (pc[s] = "awaitCompositor" /\ pc'[s] = "done" /\ threw'[s] = "none")
            => /\ outcome'[s] = "live" /\ recState'[s] = "recording"
               /\ mediaRecorderRef' = s
               /\ mounted => (recordingState'.isRecording
                               /\ ~recordingState'.isPaused)]_vars

C13_EncoderTracks ==
  \A s \in Ids :
    recState[s] # "none" => encoderTracks[s] = [video |-> 1, audio |-> 1]

C13_OneVideoOneAudio == C13_GrantedStartGoesLive /\ []C13_EncoderTracks

\* Live(Recording) with no camera, no microphone and no system audio.
C13_Witness ==
  \E s \in Ids :
    /\ Live(s) /\ recState[s] = "recording" /\ mounted
    /\ recordingState.isRecording
    /\ overlay[s] = Null /\ ~mixer[s].mic /\ ~mixer[s].systemAudio
    /\ encoderTracks[s] = [video |-> 1, audio |-> 1]

\* Live(Recording) with camera, microphone and system audio.
C13_AllSourcesLive ==
  \E s \in Ids :
    /\ Live(s) /\ recState[s] = "recording" /\ mounted
    /\ overlay[s] # Null /\ mixer[s].mic /\ mixer[s].systemAudio
    /\ encoderTracks[s] = [video |-> 1, audio |-> 1]

\* C14: the artifact a session hands over is the sequence of the non-empty
\* chunks its own encoder delivered, each once and in arrival order, and
\* nothing else.
C14_ArtifactIsOwnChunks ==
  \A s \in Ids :
    completions[s] > 0 => artifact[s] = [k \in 1..emitted[s] |-> << s, k >>]

\* C15: the chunk buffer is empty after the completion handler has delivered
\* the artifact, and after a start() failed or was rolled back while no
\* other encoder's completion was still to come.
C15_BufferClearedOnTerminal ==
  [][\A s \in Ids :
       (\/ completions'[s] # completions[s]
        \/ /\ outcome[s] = "none" /\ outcome'[s] = "error"
           /\ \A r \in Ids : recState'[r] \notin {"recording", "paused"}
                              /\ recEvents'[r] = "none")
       => chunksRef' = << >>]_vars

\* C16: while a session is Live, a camera settings change replaces exactly
\* the fields the partial names, in the component's settings and in the
\* running compositor's, and changes nothing else: RecordingState, the
\* encoder and the chunk buffer are as before.
C16_CameraSettingsMerged ==
  \A s \in Ids :
    (mounted /\ Live(s)) =>
      /\ handleCameraSettingsChange(St, [position |-> "top-left"]) =
           [St EXCEPT !.cameraSettings.position = "top-left",
                      !.overlaySettings[s].position = "top-left"]
      /\ handleCameraSettingsChange(St, [size |-> "small", shape |-> "circle"]) =
           [St EXCEPT !.cameraSettings.size = "small",
                      !.cameraSettings.shape = "circle",
                      !.overlaySettings[s].size = "small",
                      !.overlaySettings[s].shape = "circle"]

\* Both partials were applied while the session was Live: the compositor,
\* built with the default settings, now draws with both changes.
C16_Witness ==
  \E s \in Ids :
    /\ mounted /\ Live(s) /\ recordingState.isRecording
    /\ cap[s].cameraSettings = DEFAULT_CAMERA_SETTINGS
    /\ cameraSettings =
         [position |-> "top-left", size |-> "small", shape |-> "circle"]
    /\ overlaySettings[s] = cameraSettings

\* C17: an invocation of start() takes the audio settings in force when it
\* is invoked and keeps them; the microphone is requested exactly when they
\* enable it, and microphone and system audio are acquired and mixed only
\* when they enable them; a later change of the audio settings changes the
\* audioSettings state and nothing of any session.
C17_SettingsTakenAtStart ==
  [][\A s \in Ids :
       /\ (pc[s] = "idle" /\ pc'[s] # "idle")
            => cap'[s].audioSettings = audioSettings
       /\ pc[s] # "idle" => cap'[s].audioSettings = cap[s].audioSettings
       /\ (pc[s] = "awaitScreen" /\ screenLive'[s] /\ threw'[s] = "none")
            => (pc'[s] = "awaitMic" <=> cap[s].audioSettings.microphoneEnabled)]_vars

C17_SourcesFollowStartSettings ==
  \A s \in Ids :
    /\ (pc[s] = "awaitMic" \/ loc[s].mic \/ micLive[s] \/ mixer[s].mic
          \/ "warning:mic" \in toasts[s])
         => cap[s].audioSettings.microphoneEnabled
    /\ (loc[s].systemAudio \/ mixer[s].systemAudio)
         => cap[s].audioSettings.systemAudioEnabled
    /\ mixer[s].open => /\ mixer[s].mic = loc[s].mic
                        /\ mixer[s].systemAudio = loc[s].systemAudio

C17_ChangeTouchesSettingsOnly ==
  /\ handleAudioSettingsChange(St, "microphoneEnabled") =
       [St EXCEPT !.audioSettings.microphoneEnabled = ~@]
  /\ handleAudioSettingsChange(St, "systemAudioEnabled") =
       [St EXCEPT !.audioSettings.systemAudioEnabled = ~@]

C17_AudioRoutingFixedAtStart ==
  /\ C17_SettingsTakenAtStart
  /\ [](C17_SourcesFollowStartSettings /\ C17_ChangeTouchesSettingsOnly)

\* The microphone was switched off after start() was invoked; the session
\* went Live with the microphone it was started with.
C17_Witness ==
  \E s \in Ids :
    /\ mounted /\ Live(s) /\ recordingState.isRecording
    /\ ~audioSettings.microphoneEnabled
    /\ cap[s].audioSettings.microphoneEnabled
    /\ micLive[s] /\ mixer[s].mic

\* The microphone was switched off before start() was invoked; the session
\* went Live without requesting it.
C17_StartedWithoutMicrophone ==
  \E s \in Ids :
    /\ mounted /\ Live(s) /\ ~cap[s].audioSettings.microphoneEnabled
    /\ ~micLive[s] /\ ~mixer[s].mic /\ toasts[s] = {"success:started"}

\* C18: in every step of a Live session in which the camera is switched off
\* or on, or its stream arrives, the running compositor stays the same
\* compositor and its overlay source becomes the camera stream in use: null
\* when the camera is disabled, the live stream when it is enabled.
C18_OverlayFollowsCamera ==
  [][\A s \in Ids :
       (/\ mounted /\ Live(s) /\ Live(s)'
        /\ (cameraEnabled' # cameraEnabled \/ cameraStream' # cameraStream))
       => /\ compositor'[s] /\ compositorRef' = s
          /\ overlay'[s] = IF cameraEnabled' THEN cameraStream' ELSE Null]_vars

\* C19: once an encoder that failed while its session was Live has had its
\* events handled, the session is back in Idle with everything released (no
\* live screen or microphone track, compositor, mixer and ticker stopped,
\* isRecording false) and the caller has been told: by an error
\* notification, or by the partial recording being handed over.
C19_EncoderFailureCleansUp ==
  \A s \in Ids :
    (errored[s] /\ recState[s] = "inactive" /\ recEvents[s] = "none") =>
      /\ ~screenLive[s] /\ ~micLive[s]
      /\ ~compositor[s] /\ ~mixer[s].open /\ ~ticker[s]
      /\ mounted => ~recordingState.isRecording
      /\ completions[s] = 1 \/ "error:encoder" \in toasts[s]

\* The failure itself is reported: an error notification is raised.
C19_EncoderFailureReported ==
  \A s \in Ids :
    (errored[s] /\ recState[s] = "inactive" /\ recEvents[s] = "none") =>
      "error:encoder" \in toasts[s]

\* C20: the step in which a setup call after screen acquisition throws
\* (mixer construction, stream combination or encoder creation, encoder
\* start) ends the start() in an error with the recorder Idle (isRecording
\* and isPaused false, no ticker) and with the screen and microphone streams
\* the invocation acquired released.
C20_SetupFailureRollsBack ==
  [][\A s \in Ids :
       (threw[s] = "none"
        /\ threw'[s] \in {"createAudioMixer", "createMediaRecorder", "recorder.start"})
       => /\ pc'[s] = "done" /\ outcome'[s] = "error"
          /\ "error:start" \in toasts'[s]
          /\ mounted => (~recordingState'.isRecording /\ ~recordingState'.isPaused)
          /\ ~ticker'[s] /\ durationIntervalRef' = Null
          /\ ~screenLive'[s]
          /\ ~micLive'[s]]_vars

\* C21: the step that unmounts the recorder after a session has completed
\* (its artifact was handed to the page, which then replaces the recorder by
\* the editor) leaves the camera stream the recorder holds without a live
\* track.
C21_CameraReleasedAfterHandOff ==
  [][(mounted /\ ~mounted' /\ cameraStream # Null
      /\ \E s \in Ids : completions[s] > 0)
     => ~camLive'[cameraStream]]_vars

\* The recorder is Idle: the component is mounted, no start() is in progress
\* and isRecording is false.
RecorderIdle ==
  /\ mounted
  /\ ~recordingState.isRecording
  /\ \A s \in Ids : pc[s] \in {"idle", "done"}

\* C22: in every reachable state in which the recorder is Idle, no
\* compositor, mixer, encoder or duration ticker of any session exists still
\* uncleaned.
C22_NothingOutlivesSession ==
  RecorderIdle =>
    \A s \in Ids :
      ~compositor[s] /\ ~mixer[s].open /\ ~Active(s) /\ ~ticker[s]

\* The microphone is requested (the invocation suspends on
\* getMicrophoneStream) only in the step in which its screen acquisition
\* resolved with a stream.
C23_MicAfterScreen ==
  [][\A s \in Ids :
       (pc[s] # "awaitMic" /\ pc'[s] = "awaitMic")
       => pc[s] = "awaitScreen" /\ screenStreamRef' = s /\ screenLive'[s]]_vars

\* The mixer is constructed only in the step in which the microphone step
\* resolved, or, when the invocation's settings ask for no microphone, in the
\* step in which the screen acquisition resolved with a stream.
C23_MixerAfterMic ==
  [][\A s \in Ids :
       (~mixer[s].open /\ mixer'[s].open)
       => \/ pc[s] = "awaitMic"
          \/ /\ pc[s] = "awaitScreen"
             /\ ~cap[s].audioSettings.microphoneEnabled
             /\ screenLive'[s]]_vars

\* The compositor is requested only once the mixer of the invocation exists,
\* and is constructed only by the step that resolves that request.
C23_CompositorAfterMixer ==
  [][\A s \in Ids :
       /\ (pc[s] # "awaitCompositor" /\ pc'[s] = "awaitCompositor")
          => mixer'[s].open /\ audioMixerRef' = s
       /\ (~compositor[s] /\ compositor'[s]) => pc[s] = "awaitCompositor"]_vars

\* The encoder is created, and started, only in the step in which compositor
\* construction resolved, never when it rejected.
C23_EncoderAfterCompositor ==
  [][\A s \in Ids :
       (recState[s] = "none" /\ recState'[s] # "none")
       => /\ pc[s] = "awaitCompositor"
          /\ threw'[s] # "createCompositor"
          /\ overlaySettings'[s] = cap[s].cameraSettings]_vars

\* C23: within one start(), setup is strictly sequential: the microphone is
\* requested only after screen acquisition resolved successfully, the mixer
\* is constructed only after the microphone step resolved, the compositor
\* only after the mixer, and the encoder is created and started only after
\* compositor construction resolved.
C23_SetupSequential ==
  /\ C23_MicAfterScreen
  /\ C23_MixerAfterMic
  /\ C23_CompositorAfterMixer
  /\ C23_EncoderAfterCompositor

\* A start() that went through all four steps and is Live.
C23_Witness ==
  \E s \in Ids :
    /\ Live(s) /\ pc[s] = "done" /\ threw[s] = "none"
    /\ cap[s].audioSettings.microphoneEnabled
    /\ screenLive[s] /\ micLive[s]
    /\ mixer[s].open /\ mixer[s].mic /\ compositor[s]

\* C24: in every reachable state, a running compositor that was given a
\* camera stream reads a live one, and an open mixer that was given the
\* microphone reads a live one: no running consumer holds a source whose
\* tracks have been stopped.
C24_NoReleasedSourceInUse ==
  \A s \in Ids :
    /\ (compositor[s] /\ overlay[s] # Null) => camLive[overlay[s]]
    /\ (mixer[s].open /\ mixer[s].mic) => micLive[s]

\* ------------------------------------------------------------- finalization
\* The events a stopped encoder has queued are delivered by the event loop:
\* the final dataavailable, then stop.
FinalEvents(s) ==
  \/ /\ recEvents[s] = "data"
     /\ \E e \in {ondataavailable([St EXCEPT !.recEvents[s] = "stop"], s, FALSE)} :
          Commit(e)
  \/ /\ recEvents[s] = "stop"
     /\ \E e \in {onstop([St EXCEPT !.recEvents[s] = "none"], s)} :
          Commit(e)

\* One session with its clock, with every queued encoder event eventually
\* delivered.
SpecFinalize ==
  Init /\ [][NextClock]_vars /\ \A s \in Ids : WF_vars(FinalEvents(s))

\* C25: once stop() has been called on the Live session of a mounted
\* recorder (its encoder is stopped and its completion event is pending), and
\* the encoder's queued events are eventually delivered, onRecordingComplete
\* is eventually invoked for that session and the recorder, if still mounted,
\* is Idle with RecordingState {isRecording: false, isPaused: false,
\* duration: 0, startTime: null}.
C25_StopLeadsToIdle ==
  \A s \in Ids :
    (mounted /\ Finalizing(s)) ~>
      (completions[s] = 1 /\ (mounted => recordingState = IdleRecordingState))

\* A stopped session that completed on a mounted recorder.
C25_Witness ==
  \E s \in Ids :
    /\ mounted /\ completions[s] = 1 /\ outcome[s] = "live"
    /\ recState[s] = "inactive" /\ recEvents[s] = "none"
    /\ recordingState = IdleRecordingState

\* C26: the recorder is never left Live(Recording) on a screen source whose
\* track has ended with nothing pending that ends the session: no start() in
\* progress and no encoder event queued.
C26_NoLiveOnEndedScreen ==
  \A s \in Ids :
    ~ /\ mounted /\ Live(s) /\ recState[s] = "recording"
      /\ ~screenLive[s]
      /\ \A t \in Ids : pc[t] \in {"idle", "done"} /\ recEvents[t] = "none"

\* A mixer has a system-audio input exactly when the screen stream of its
\* invocation carries an audio track and the invocation's settings enable
\* system audio.
C27_MixerSystemAudioInput ==
  \A s \in Ids :
    /\ mixer[s].systemAudio =>
         screenAudio[s] /\ cap[s].audioSettings.systemAudioEnabled
    /\ (mixer[s].open /\ screenAudio[s]
        /\ cap[s].audioSettings.systemAudioEnabled) => mixer[s].systemAudio

\* A screen stream without an audio track, acquired with system audio
\* requested, does not end the start(): the invocation goes on to the
\* microphone step or to the mixer.
C27_MissingSystemAudioNotFatal ==
  [][\A s \in Ids :
       (pc[s] = "awaitScreen" /\ screenLive'[s] /\ ~screenAudio'[s]
        /\ cap[s].audioSettings.systemAudioEnabled)
       => /\ systemAudioStream' = systemAudioStream
          /\ toasts'[s] = toasts[s]
          /\ \/ pc'[s] = "awaitMic"
             \/ pc'[s] = "awaitCompositor" /\ ~mixer'[s].systemAudio
             \/ threw'[s] = "createAudioMixer"]_vars

\* C27: system audio is given to the mixer only when the acquired screen
\* source carries an audio track and system audio is enabled; when it was
\* requested and the screen source has no audio track, the mixer is built
\* without a system-audio input and the session still starts.
C27_SystemAudioOnlyIfPresent ==
  /\ []C27_MixerSystemAudioInput
  /\ C27_MissingSystemAudioNotFatal

\* A Live session that requested system audio, got a screen stream without an
\* audio track, and runs a mixer without a system-audio input.
C27_Witness ==
  \E s \in Ids :
    /\ Live(s) /\ outcome[s] = "live"
    /\ cap[s].audioSettings.systemAudioEnabled
    /\ screenLive[s] /\ ~screenAudio[s]
    /\ mixer[s].open /\ ~mixer[s].systemAudio

\* C28: a tick of a running duration ticker changes nothing but the
\* observable duration: while isPaused it leaves the state as it is,
\* otherwise it sets duration to the whole seconds elapsed since the start
\* timestamp of the recording state; isRecording, isPaused and startTime are
\* never changed.
C28_TickSetsDurationOnly ==
  \A s \in Ids :
    (mounted /\ ticker[s]) =>
      LET d == durationTick(St, s).recordingState.duration
      IN /\ durationTick(St, s) = [St EXCEPT !.recordingState.duration = d]
         /\ recordingState.isPaused => d = recordingState.duration
         /\ ~recordingState.isPaused =>
              /\ d * 1000 <= now - recordingState.startTime
              /\ now - recordingState.startTime < (d + 1) * 1000

\* C29: a start() that ended because the screen picker was dismissed has
\* raised no notification to the user.
C29_CancelIsSilent ==
  \A s \in Ids : outcome[s] = "cancelled" => toasts[s] = {}

\* cleanup run twice in a row leaves the state cleanup run once leaves,
\* whichever microphone stream its closure holds.
C30_CleanupTwiceIsOnce ==
  \A m \in {Null} \cup Ids :
    cleanup(cleanup(St, m), m) = cleanup(St, m)

\* cleanup of the current render, run while the recorder is Idle, changes
\* nothing.
C30_CleanupInIdleIsNoOp ==
  RecorderIdle => cleanup(St, micStream) = St

\* C30: cleanup is idempotent and callable from any state: running it twice
\* in a row leaves the same state as running it once, and running it in Idle
\* changes nothing.
C30_CleanupIdempotent ==
  C30_CleanupTwiceIsOnce /\ C30_CleanupInIdleIsNoOp

\* A Live session, on which cleanup acts: it stops the ticker, the encoder,
\* the compositor, the mixer and the screen stream.
C30_Witness ==
  \E s \in Ids :
    /\ mounted /\ Live(s) /\ ticker[s] /\ compositor[s] /\ mixer[s].open
    /\ screenLive[s]
    /\ cleanup(St, micStream) # St
    /\ cleanup(St, micStream).recState[s] = "inactive"
    /\ ~cleanup(St, micStream).screenLive[s]

\* C33: in every reachable RecordingState, isPaused implies isRecording, and
\* startTime is non-null exactly when isRecording is true.
C33_RecordingStateWellFormed ==
  /\ recordingState.isPaused => recordingState.isRecording
  /\ (recordingState.startTime # NoTime) <=> recordingState.isRecording

\* A paused recording state of a mounted recorder.
C33_Witness ==
  /\ mounted
  /\ recordingState.isRecording /\ recordingState.isPaused
  /\ recordingState.startTime # NoTime

\* C34: whenever the encoder the recorder references is in state
\* 'recording', isRecording is true and isPaused is false; whenever it is in
\* state 'paused', isRecording and isPaused are both true.
C34_StateAgreesWithEncoder ==
  \A s \in Ids :
    (mounted /\ mediaRecorderRef = s) =>
      /\ recState[s] = "recording" =>
           recordingState.isRecording /\ ~recordingState.isPaused
      /\ recState[s] = "paused" =>
           recordingState.isRecording /\ recordingState.isPaused

\* A session resumed after a pause: the referenced encoder records again and
\* the state says recording, not paused; and a session that is paused.
C34_Witness ==
  \E s \in Ids :
    /\ mounted /\ mediaRecorderRef = s /\ recState[s] = "paused"
    /\ recordingState.isRecording /\ recordingState.isPaused
    /\ resumeRecording(St).recState[s] = "recording"
    /\ ~resumeRecording(St).recordingState.isPaused

\* No session is Live: the recorder references no recording or paused
\* encoder.
NoSessionLive == \A s \in Ids : ~Live(s)

\* C35: pause(), resume() and stop() invoked when no session is Live (in
\* Idle, while start() is acquiring, in Finalizing) leave the whole state as
\* it is: RecordingState unchanged, no encoder method called; and no session
\* ever completes twice.
C35_ControlsNoOpOutsideLive ==
  /\ (mounted /\ NoSessionLive) =>
       /\ stopRecording(St) = St
       /\ pauseRecording(St) = St
       /\ resumeRecording(St) = St
  /\ \A s \in Ids : completions[s] <= 1

\* A session in Finalizing whose stop event is the next to be delivered, on
\* which a second stop() does nothing.
C35_Witness ==
  \E s \in Ids :
    /\ mounted /\ Finalizing(s) /\ recEvents[s] = "stop"
    /\ completions[s] = 0
    /\ stopRecording(St) = St

\* C36: on a mounted recorder every camera stream that has a live track is
\* the recorder's current cameraStream; and once the camera is disabled and
\* no acquisition is pending, cameraStream is null and no camera stream has
\* a live track.
C36_NoCameraStreamLeaks ==
  mounted =>
    /\ \A c \in CamIds : camLive[c] => cameraStream = c
    /\ (~cameraEnabled /\ \A c \in CamIds : camReq[c] # "pending") =>
         /\ cameraStream = Null
         /\ \A c \in CamIds : ~camLive[c]

\* The editor is shown only with a finished recording, and the recorder is
\* mounted exactly when appState is 'recording'.
C37_PageInvariant ==
  /\ appState \in {"recording", "editing"}
  /\ appState = "editing" => recordingData.present
  /\ mounted <=> appState = "recording"

\* A completion stores the session's blob and duration and switches to
\* 'editing'; going back clears recordingData and returns to 'recording'.
C37_PageTransitions ==
  [][/\ \A s \in Ids :
          completions'[s] = completions[s] + 1 =>
            /\ appState' = "editing"
            /\ recordingData' = [present |-> TRUE, blob |-> artifact'[s],
                                 duration |-> durationOut'[s]]
     /\ (appState = "editing" /\ appState' # "editing") =>
          appState' = "recording" /\ recordingData' = NoRecordingData
     /\ (appState = "recording" /\ appState' # "recording") =>
          \E s \in Ids : completions'[s] = completions[s] + 1]_vars

\* C37: in the page state machine appState is 'editing' only if
\* recordingData is non-null, a recording completion stores (blob, duration)
\* and switches to 'editing', going back clears recordingData and returns to
\* 'recording', and the recorder is mounted exactly when appState is
\* 'recording'.
C37_PageStateMachine ==
  []C37_PageInvariant /\ C37_PageTransitions

\* The editor shown with a recording of one second and one chunk; and the
\* recorder mounted again after Back.
C37_Witness ==
  /\ appState = "editing" /\ ~mounted
  /\ recordingData.present
  /\ Len(recordingData.blob) = 1 /\ recordingData.duration = 1

C37_WitnessBack ==
  /\ appState = "recording" /\ mounted /\ ~recordingData.present
  /\ \E s \in Ids : completions[s] = 1

\* The timeline always has an active segment.
C38_SomeSegmentActive == Len(getActiveSegments(editorState)) >= 1

\* A delete request issued with at most one active segment raises an error
\* and leaves the editor state as it is.
C38_LastSegmentDeleteRejected ==
  \A id \in SegmentIds(editorState) :
    Len(getActiveSegments(editorState)) <= 1 =>
      /\ handleDeleteSegment(St, id).editorState = editorState
      /\ handleDeleteSegment(St, id).editorToast = "error:last-segment"

\* C38: a delete request issued when at most one non-deleted segment remains
\* is rejected with an error and leaves the editor state unchanged, so
\* delete requests through handleDeleteSegment never leave the timeline
\* with zero active segments.
C38_DeleteKeepsOneSegment ==
  C38_SomeSegmentActive /\ C38_LastSegmentDeleteRejected

\* A timeline of three segments of which two are deleted, after a rejected
\* delete request.
C38_Witness ==
  /\ Len(editorState.segments) = 3
  /\ Len(getActiveSegments(editorState)) = 1
  /\ editorToast = "error:last-segment"

\* ------------------------------------------------------------- legacy recorder
\* src/app/components/ScreenRecorder.tsx.  The component is followed through
\* its handlers: the operators below take and return the record legacy.
\* Its Record button starts handleStartRecording only while there is no
\* recording and no recorded video (RecordingControls renders the button
\* with onStartNewRecording, which the component does not pass, once
\* recordedVideoUrl is set); invocations are followed one at a time.

\* frames of the render loop followed after the stop handler's cleanup
MaxFramesAfterCleanup == 2
\* unused margin of every overlay corner, in canvas units
OverlayMargin == 16
\* canvas size when the screen track reports none
DefaultCanvasWidth == 1920
DefaultCanvasHeight == 1080
\* HTMLMediaElement.HAVE_CURRENT_DATA
HAVE_CURRENT_DATA == 2

Corners == {"top-left", "top-right", "bottom-left", "bottom-right"}
\* webcamPosition as the render step can receive it: the type's four
\* corners and a value outside the type
PositionInputs == Corners \cup {"center"}
\* getSettings() of the captured screen's video track; 0 is undefined
ScreenSettingsInputs ==
  { [width |-> 0, height |-> 0], [width |-> 1280, height |-> 720],
    [width |-> 1366, height |-> 768] }
\* native size of the webcam's video
WebcamNativeInputs ==
  { [width |-> 640, height |-> 480], [width |-> 1280, height |-> 720] }
\* readyState of the webcam's video element when a frame is drawn
ReadyStateInputs == {1, 4}

cleanupStreams(l) ==
  [l EXCEPT !.screenLive = IF l.screenStreamRef THEN FALSE ELSE @,
            !.screenStreamRef = FALSE,
            !.micLive = IF l.micStreamRef THEN FALSE ELSE @,
            !.micStreamRef = FALSE,
            !.webcamLive = IF l.webcamStreamRef THEN FALSE ELSE @,
            !.webcamStreamRef = FALSE,
            !.combinedStreamRef = FALSE]

handleWebcamReady(l, native) ==
  [l EXCEPT !.webcamStreamRef = TRUE, !.webcamLive = TRUE,
            !.webcamNative = native]

\* overlayRect with the right-hand corners flush with the canvas edge.
overlayRectFlushRight(canvas, webcamVideo, webcamPosition) ==
  LET webcamWidth == RMul(RInt(canvas.width), Rat(25, 100))
      webcamHeight ==
        RMul(RDiv(RInt(webcamVideo.videoHeight), RInt(webcamVideo.videoWidth)),
             webcamWidth)
      left == RInt(OverlayMargin)
      top == RInt(OverlayMargin)
      right == RSub(RInt(canvas.width), webcamWidth)
      bottom == RSub(RSub(RInt(canvas.height), webcamHeight), RInt(OverlayMargin))
      x == CASE webcamPosition = "top-left" -> left
             [] webcamPosition = "top-right" -> right
             [] webcamPosition = "bottom-left" -> left
             [] OTHER -> right
      y == CASE webcamPosition = "top-left" -> top
             [] webcamPosition = "top-right" -> top
             [] webcamPosition = "bottom-left" -> bottom
             [] OTHER -> bottom
  IN  [drawn |-> TRUE, x |-> x, y |-> y,
       width |-> webcamWidth, height |-> webcamHeight]

\* The rectangle the render step draws the webcam in.
overlayRect(canvas, webcamVideo, webcamPosition) ==
  LET webcamWidth == RMul(RInt(canvas.width), Rat(25, 100))
      webcamHeight ==
        RMul(RDiv(RInt(webcamVideo.videoHeight), RInt(webcamVideo.videoWidth)),
             webcamWidth)
      left == RInt(OverlayMargin)
      top == RInt(OverlayMargin)
      right == RSub(RSub(RInt(canvas.width), webcamWidth), RInt(OverlayMargin))
      bottom == RSub(RSub(RInt(canvas.height), webcamHeight), RInt(OverlayMargin))
      x == CASE webcamPosition = "top-left" -> left
             [] webcamPosition = "top-right" -> right
             [] webcamPosition = "bottom-left" -> left
             [] OTHER -> right
      y == CASE webcamPosition = "top-left" -> top
             [] webcamPosition = "top-right" -> top
             [] webcamPosition = "bottom-left" -> bottom
             [] OTHER -> bottom
  IN  [drawn |-> TRUE, x |-> x, y |-> y,
       width |-> webcamWidth, height |-> webcamHeight]

\* One run of the render loop's callback; readyState is the webcam video's.
drawVideoFrame(l, readyState) ==
  IF ~l.ctx
  THEN [l EXCEPT !.raf = FALSE]
  ELSE [l EXCEPT
         !.overlayRect =
           IF /\ l.cap.webcamEnabled
              /\ l.webcamVideo.present
              /\ readyState >= HAVE_CURRENT_DATA
           THEN overlayRect(l.canvas, l.webcamVideo, l.cap.webcamPosition)
           ELSE NoRect,
         !.raf = TRUE,
         !.rescheduled = IF l.cleaned THEN @ + 1 ELSE @]

\* handleStartRecording up to its first await.
handleStartRecording(l) ==
  [l EXCEPT !.pc = "screen",
            !.cap = [microphoneEnabled |-> l.microphoneEnabled,
                     webcamEnabled |-> l.webcamEnabled,
                     webcamPosition |-> l.webcamPosition]]

\* The catch block of handleStartRecording.
handleStartRecordingCatch(l) ==
  [cleanupStreams(l) EXCEPT !.pc = "idle", !.toast = "error:start"]

\* From the canvas to the end of handleStartRecording.  ctxOk: getContext
\* returned a context; throws: createRecorder threw.
startComposite(l, ctxOk, readyState, throws) ==
  LET sized ==
        [l EXCEPT
          !.ctx = ctxOk,
          !.canvas =
            [width |-> IF l.screenSettings.width # 0
                       THEN l.screenSettings.width ELSE DefaultCanvasWidth,
             height |-> IF l.screenSettings.height # 0
                        THEN l.screenSettings.height ELSE DefaultCanvasHeight],
          !.webcamVideo =
            IF l.cap.webcamEnabled /\ l.webcamStreamRef
            THEN [present |-> TRUE, videoWidth |-> l.webcamNative.width,
                  videoHeight |-> l.webcamNative.height]
            ELSE NoVideo]
      drawing == drawVideoFrame(sized, readyState)
      combined == [drawing EXCEPT !.combinedStreamRef = TRUE]
  IN  IF throws
      THEN handleStartRecordingCatch(combined)
      ELSE [combined EXCEPT
             !.mediaRecorderRef = "recording", !.stopEvent = FALSE,
             !.isRecording = IF l.mounted THEN TRUE ELSE @,
             !.isPaused = IF l.mounted THEN FALSE ELSE @,
             !.recordedVideoUrl = IF l.mounted THEN FALSE ELSE @,
             !.pc = "idle", !.toast = "success:started"]

\* handleStartRecording resumed after startScreenCapture.
afterScreenCapture(l, granted, settings) ==
  IF ~granted
  THEN [l EXCEPT !.pc = "idle", !.toast = "error:screen"]
  ELSE [l EXCEPT !.screenStreamRef = TRUE, !.screenLive = TRUE,
                 !.screenSettings = settings,
                 !.pc = IF l.cap.microphoneEnabled THEN "audio" ELSE "composite"]

\* handleStartRecording resumed after startAudioCapture.
afterAudioCapture(l, granted) ==
  [l EXCEPT !.micStreamRef = IF granted THEN TRUE ELSE @,
            !.micLive = IF granted THEN TRUE ELSE @,
            !.pc = "composite"]

\* stop() on an inactive encoder throws and changes nothing.
handleStopRecording(l) ==
  IF l.mediaRecorderRef \in {"recording", "paused"} /\ l.isRecording
  THEN [l EXCEPT !.mediaRecorderRef = "inactive", !.stopEvent = TRUE]
  ELSE l

handlePauseRecording(l) ==
  IF l.mediaRecorderRef = "recording" /\ l.isRecording /\ ~l.isPaused
  THEN [l EXCEPT !.mediaRecorderRef = "paused", !.isPaused = TRUE,
                 !.toast = "info:paused"]
  ELSE l

handleResumeRecording(l) ==
  IF l.mediaRecorderRef = "paused" /\ l.isRecording /\ l.isPaused
  THEN [l EXCEPT !.mediaRecorderRef = "recording", !.isPaused = FALSE,
                 !.toast = "info:resumed"]
  ELSE l

handleToggleWebcam(l) ==
  IF ~l.webcamEnabled
  THEN [l EXCEPT !.webcamEnabled = TRUE]
  ELSE [l EXCEPT !.webcamLive = IF l.webcamStreamRef THEN FALSE ELSE @,
                 !.webcamStreamRef = FALSE,
                 !.webcamEnabled = FALSE]

handleToggleMicrophone(l) ==
  [l EXCEPT !.microphoneEnabled = ~@]

\* mediaRecorder.onstop, and the effect cleanup the change of
\* recordedVideoUrl triggers, which calls cleanupStreams once more.
mediaRecorderOnstop(l) ==
  LET set == [l EXCEPT !.recordedVideoUrl = IF l.mounted THEN TRUE ELSE @,
                       !.isRecording = IF l.mounted THEN FALSE ELSE @,
                       !.stopEvent = FALSE]
      cleaned == [cleanupStreams(set) EXCEPT !.cleaned = TRUE,
                                             !.toast = "success:completed"]
  IN  IF l.mounted THEN cleanupStreams(cleaned) ELSE cleaned

\* The cleanup of the unmount effect.
legacyUnmount(l) ==
  [cleanupStreams(l) EXCEPT !.mounted = FALSE]

\* ------------------------------------------------------------- legacy actions
LegacyStep(l) == Commit([St EXCEPT !.legacy = l])

\* The Record button is rendered with handleStartRecording.
LegacyStartRecording ==
  /\ legacy.mounted /\ ~legacy.isRecording /\ ~legacy.recordedVideoUrl
  /\ legacy.pc = "idle"
  /\ LegacyStep(handleStartRecording(legacy))

LegacyScreenResolved ==
  /\ legacy.pc = "screen"
  /\ \E granted \in BOOLEAN, settings \in ScreenSettingsInputs :
       LegacyStep(afterScreenCapture(legacy, granted, settings))

LegacyAudioResolved ==
  /\ legacy.pc = "audio"
  /\ \E granted \in BOOLEAN : LegacyStep(afterAudioCapture(legacy, granted))

LegacyComposite ==
  /\ legacy.pc = "composite"
  /\ \E ctxOk \in BOOLEAN, readyState \in ReadyStateInputs, throws \in BOOLEAN :
       LegacyStep(startComposite(legacy, ctxOk, readyState, throws))

\* The browser runs the pending animation frame callback.
LegacyAnimationFrame ==
  /\ legacy.raf
  /\ legacy.cleaned => legacy.rescheduled < MaxFramesAfterCleanup
  /\ \E readyState \in ReadyStateInputs :
       LegacyStep(drawVideoFrame(legacy, readyState))

LegacyStopRecording ==
  /\ legacy.mounted /\ legacy.isRecording
  /\ LegacyStep(handleStopRecording(legacy))

LegacyPauseRecording ==
  /\ legacy.mounted /\ legacy.isRecording /\ ~legacy.isPaused
  /\ LegacyStep(handlePauseRecording(legacy))

LegacyResumeRecording ==
  /\ legacy.mounted /\ legacy.isRecording /\ legacy.isPaused
  /\ LegacyStep(handleResumeRecording(legacy))

LegacyOnstop ==
  /\ legacy.stopEvent
  /\ LegacyStep(mediaRecorderOnstop(legacy))

LegacyToggleWebcam ==
  /\ legacy.mounted
  /\ LegacyStep(handleToggleWebcam(legacy))

LegacyToggleMicrophone ==
  /\ legacy.mounted
  /\ LegacyStep(handleToggleMicrophone(legacy))

\* The webcam preview, rendered while webcamEnabled, hands its stream over.
LegacyWebcamReady ==
  /\ legacy.mounted /\ legacy.webcamEnabled /\ ~legacy.webcamStreamRef
  /\ \E native \in WebcamNativeInputs :
       LegacyStep(handleWebcamReady(legacy, native))

LegacyUnmount ==
  /\ legacy.mounted
  /\ LegacyStep(legacyUnmount(legacy))

NextLegacy ==
  \/ LegacyStartRecording
  \/ LegacyScreenResolved
  \/ LegacyAudioResolved
  \/ LegacyComposite
  \/ LegacyAnimationFrame
  \/ LegacyStopRecording
  \/ LegacyPauseRecording
  \/ LegacyResumeRecording
  \/ LegacyOnstop
  \/ LegacyToggleWebcam
  \/ LegacyToggleMicrophone
  \/ LegacyWebcamReady
  \/ LegacyUnmount

\* The legacy recorder from its construction.
SpecLegacy == Init /\ [][NextLegacy]_vars

\* C31: once the stop handler of the legacy recorder's encoder has run
\* cleanupStreams, the render loop's callback drawVideoFrame does not call
\* requestAnimationFrame again.
C31_LoopEndsWithSession == legacy.cleaned => legacy.rescheduled = 0

\* The render step of the legacy recorder for every value of webcamPosition:
\* the component as constructed, its webcamPosition drawn from the inputs
\* of the render step.
InitRender ==
  /\ InitComponents
  /\ legacy \in {LegacyConstructed(position) : position \in PositionInputs}

SpecRender == InitRender /\ [][NextLegacy]_vars

\* The corner a position stands for.
CornerOf(position) ==
  IF position \in Corners THEN position ELSE "bottom-right"

\* rect has a quarter of the canvas's width, the native height/width ratio
\* of video, and lies OverlayMargin from the two canvas edges of position's
\* corner.
PlacedAtCorner(rect, canvas, video, position) ==
  LET corner == CornerOf(position)
      rightGap == RSub(RInt(canvas.width), RAdd(rect.x, rect.width))
      bottomGap == RSub(RInt(canvas.height), RAdd(rect.y, rect.height))
  IN  /\ RMul(rect.width, RInt(4)) = RInt(canvas.width)
      /\ RMul(rect.height, RInt(video.videoWidth))
           = RMul(rect.width, RInt(video.videoHeight))
      /\ IF corner \in {"top-left", "bottom-left"}
         THEN rect.x = RInt(OverlayMargin)
         ELSE rightGap = RInt(OverlayMargin)
      /\ IF corner \in {"top-left", "top-right"}
         THEN rect.y = RInt(OverlayMargin)
         ELSE bottomGap = RInt(OverlayMargin)

\* C32: the overlay rectangle a render step of the legacy recorder draws has
\* one quarter of the canvas width, a height equal to that width scaled by
\* the webcam video's native height/width ratio, and lies exactly 16 units
\* from the two canvas edges of its corner, for each of the four corners; a
\* position that is none of the four is placed as bottom-right.
C32_OverlayPlacement ==
  \A readyState \in ReadyStateInputs :
    LET frame == drawVideoFrame(legacy, readyState)
    IN  (legacy.ctx /\ frame.overlayRect.drawn) =>
          /\ PlacedAtCorner(frame.overlayRect, legacy.canvas,
                            legacy.webcamVideo, legacy.cap.webcamPosition)
          /\ \A position \in PositionInputs \ Corners :
               overlayRect(legacy.canvas, legacy.webcamVideo, position)
                 = overlayRect(legacy.canvas, legacy.webcamVideo, "bottom-right")

\* A frame has drawn the overlay at the top-right corner of a canvas whose
\* quarter width is not an integer.
C32_Witness ==
  /\ legacy.ctx /\ legacy.raf
  /\ legacy.overlayRect.drawn
  /\ legacy.cap.webcamPosition = "top-right"
  /\ legacy.canvas.width = 1366
  /\ legacy.overlayRect
       = overlayRect(legacy.canvas, legacy.webcamVideo, "top-right")
  /\ legacy.overlayRect.width = Rat(683, 2)
  /\ legacy.overlayRect.x = Rat(2017, 2)

\* A frame has drawn the overlay for a position that is none of the four.
C32_WitnessUnrecognised ==
  /\ legacy.ctx /\ legacy.overlayRect.drawn
  /\ legacy.cap.webcamPosition \notin Corners
  /\ legacy.overlayRect.y
       = RSub(RSub(RInt(legacy.canvas.height), legacy.overlayRect.height),
              RInt(OverlayMargin))

====
